---- MODULE Spec2Model ----
(***************************************************************************)
(* A model of anki-words-rust: the rate-limited request loops of the       *)
(* Oxford dictionary client and the Readwise client, the recursive         *)
(* definition resolver of the dictionary client, and the batch enrichment  *)
(* pipeline of main.rs with its whole-file word cache.                     *)
(***************************************************************************)
EXTENDS Integers, Sequences, FiniteSets, TLC

VARIABLES
    \* ---- make_request (oxford_dict.rs, readwise.rs)
    client,     \* which client's make_request is running
    script,     \* the responses the remote service will still give, in order
    script0,    \* the whole script of the call (history)
    iter,       \* the loop variable of `for _ in ...`
    flog,       \* requests sent and sleeps taken, in order
    fpc,        \* "loop" | "done"
    fresult,    \* the value make_request ended with
    \* ---- OxfordDictClient::definitions / entries (oxford_dict.rs)
    dict,       \* what the dictionary service has answered so far, per
                \* <<dialect, word id>>: None until asked, then fixed
    d_stem,     \* the word_stem argument of definitions
    d_lang,     \* the lang argument of the running entries call
    d_word,     \* the word_id argument of the running entries call
    d_depth,    \* how many times entries has called itself in this dialect
    d_reqs,     \* the entries requests issued, in order, as <<lang, word_id>>
    d_ret,      \* what the outermost entries call of the dialect returned
    d_us,       \* en_us_entries of definitions, once awaited
    d_out,      \* what definitions returned
    dpc,        \* "idle" | "entries" | "returned" | "done"
    \* ---- WordProcessor::process (main.rs) and the word cache (db.rs)
    cache,      \* the book's cache file: absent, unreadable, or a Word list
    all_words,  \* the Words of the book's highlights (the same in every run)
    force,      \* the force argument of the run
    unprocessed_words,  \* what the running `for` has not yet taken
    processed_words,
    failed_words,
    count,      \* the count variable of process_words_v2
    round,      \* how many times redact_words has returned in this run
    ppc,        \* where the run is
    calls,      \* stem, definition and translation calls issued in this run
    attempted,  \* original_text of the Words passed to process_word in this run
    reads,      \* db::get_words calls of this run
    writes,     \* db::save_words calls of this run
    cache0,     \* the cache file as it was when this run started
    prev_out,   \* Some(the output and `dropped` of the previous run) if that
                \* run had force=false and succeeded, else None
    dropped,    \* whether the operator has left out a failed Word in this run
    exported,   \* what the export collaborator was given in this run
    round_words,    \* unprocessed_words as the running round of the loop found it
    tried,      \* the Words passed to process_word in the running round, in order
    last_call,  \* the process_word call of the latest pass of the running `for`:
                \* the Word passed, what was asked and what was answered
    redactions, \* the redact_words calls of this run: what the operator was
                \* shown, selected and typed
    \* ---- OxfordDictClient::map_lexical_entry (oxford_dict.rs), called alone
    m_word,     \* the word_id argument
    m_entry,    \* the lexical_entry argument
    m_out,      \* what the call returned
    mpc,        \* "idle" | "call" | "done"
    \* ---- a pure function of the program, called alone
    c_fn,       \* the function
    c_arg,      \* its arguments
    c_ret,      \* None until it has returned, then Some(the value returned)
    \* ---- ReadwiseClient::get_list_data (readwise.rs)
    l_pages,    \* what the service answers to the request of page 1, 2, ...
    l_page,     \* the page variable of the loop
    l_results,  \* the results variable of the loop
    l_reqs,     \* the requests made, in order, as <<page, page_size>>
    l_ret,      \* what get_list_data ended with
    lpc,        \* "idle" | "loop" | "done"
    \* ---- db::save_words and db::get_words over the data directory (db.rs)
    files,      \* the files of data/, by name: NoFile, BadFile or FileOf(words)
    db_calls    \* the db calls made, in order, with what each returned

fvars == <<client, script, script0, iter, flog, fpc, fresult>>
dvars == <<dict, d_stem, d_lang, d_word, d_depth, d_reqs, d_ret, d_us, d_out, dpc>>

pvars == <<cache, all_words, force, unprocessed_words, processed_words, failed_words,
           count, round, ppc, calls, attempted, reads, writes, cache0, prev_out,
           dropped, exported>>

\* what process_words_v2 has done in the run (history), kept until the value
\* it returned is saved
hvars == <<round_words, tried, last_call, redactions>>

mvars == <<m_word, m_entry, m_out, mpc>>
cvars == <<c_fn, c_arg, c_ret>>
lvars == <<l_pages, l_page, l_results, l_reqs, l_ret, lpc>>
bvars == <<files, db_calls>>

vars == <<fvars, dvars, pvars, hvars, mvars, cvars, lvars, bvars>>

(***************************************************************************)
(* Bounds of the model.                                                    *)
(***************************************************************************)
ScriptLen == 3
MaxDepth == 2
MaxRounds == 1
MaxSenses == 2

(***************************************************************************)
(* Small helpers over sequences.                                           *)
(***************************************************************************)
RECURSIVE SeqOfLen(_, _)
SeqOfLen(S, n) ==
    IF n = 0 THEN {<<>>}
    ELSE {<<x>> \o s : x \in S, s \in SeqOfLen(S, n - 1)}

RECURSIVE Flatten(_)
Flatten(ss) == IF ss = <<>> THEN <<>> ELSE Head(ss) \o Flatten(Tail(ss))

RECURSIVE SelectIdx(_, _, _)
SelectIdx(s, keep, i) ==
    IF i > Len(s) THEN <<>>
    ELSE (IF i \in keep THEN <<s[i]>> ELSE <<>>) \o SelectIdx(s, keep, i + 1)

Range(s) == {s[i] : i \in 1..Len(s)}

(***************************************************************************)
(* make_request: the rate-limit retry loop of both clients.                *)
(***************************************************************************)
TOO_MANY_REQUESTS == 429
STATUS_OK == 200
OxfordLoopEnd == 3
ReadwiseLoopEnd == 3
MillisPerSec == 1000

\* `for _ in 1..3` (end excluded) and `for _ in 1..=3` (end included)
OxfordIters == 1..(OxfordLoopEnd - 1)
ReadwiseIters == 1..ReadwiseLoopEnd

\* An Option is a sequence of at most one value: None is <<>>, Some(v) is <<v>>.
None == <<>>
Some(v) == <<v>>
Err == [ok |-> FALSE]
Ok(v) == [ok |-> TRUE, val |-> v]

Digits == {"0", "1", "2", "3", "4", "5", "6", "7", "8", "9"}
DigitVal(c) ==
    CASE c = "0" -> 0 [] c = "1" -> 1 [] c = "2" -> 2 [] c = "3" -> 3
      [] c = "4" -> 4 [] c = "5" -> 5 [] c = "6" -> 6 [] c = "7" -> 7
      [] c = "8" -> 8 [] OTHER -> 9

RECURSIVE DecimalValue(_)
DecimalValue(cs) ==
    IF cs = <<>> THEN 0
    ELSE DecimalValue(SubSeq(cs, 1, Len(cs) - 1)) * 10 + DigitVal(cs[Len(cs)])

\* str::parse::<u64>: an optional '+', then one or more decimal digits.
\* The header value is a sequence of characters; the result is the number, or
\* Err (the `?` of the caller then returns the error).
parse_u64(cs) ==
    LET ds == IF cs # <<>> /\ cs[1] = "+" THEN Tail(cs) ELSE cs
    IN  IF ds # <<>> /\ \A i \in 1..Len(ds) : ds[i] \in Digits
        THEN Ok(DecimalValue(ds))
        ELSE Err

\* .headers().get("Retry-After").ok_or(..)?.to_str()?.parse::<u64>()?
retry_after(resp) ==
    IF resp.retry_after = None THEN Err ELSE parse_u64(resp.retry_after[1])

\* time::Duration::from_secs(n) and time::Duration::from_millis(n), in ms
from_secs(n) == n * MillisPerSec
from_millis(n) == n

HeaderValues ==
    {None, Some(<<"2">>), Some(<<"0">>), Some(<<"-", "1">>), Some(<<"2", "x">>)}

\* What the service can answer to one request: the connection fails, or a
\* response with a status, a body that is the expected JSON or not, and
\* (on 429) a Retry-After header.
SendErr == [sent |-> FALSE]
ServiceResponses ==
    {SendErr}
    \cup {[sent |-> TRUE, status |-> STATUS_OK, body |-> b] : b \in {"json", "garbage"}}
    \cup {[sent |-> TRUE, status |-> TOO_MANY_REQUESTS, retry_after |-> h] :
              h \in HeaderValues}

IsSend(e) == e.ev = "send"
IsSleep(e) == e.ev = "sleep"
Sent(log) == Len(SelectSeq(log, IsSend))
Sleeps(log) ==
    LET ss == SelectSeq(log, IsSleep)
    IN  [i \in 1..Len(ss) |-> ss[i].ms]

\* One pass through the body of the loop, for a response `resp` to the request
\* just sent: the value returned (or "continue"), and the sleep taken.
RequestPass(resp, duration(_)) ==
    IF ~resp.sent THEN [ret |-> "err_transport", log |-> <<>>]
    ELSE IF resp.status # TOO_MANY_REQUESTS
    THEN [ret |-> IF resp.body = "json" THEN "ok" ELSE "err_json", log |-> <<>>]
    ELSE IF ~retry_after(resp).ok THEN [ret |-> "err_header", log |-> <<>>]
    ELSE [ret |-> "continue",
          log |-> << [ev |-> "sleep", ms |-> duration(retry_after(resp).val)] >>]

Oxford_pass(resp) == RequestPass(resp, from_secs)
Readwise_pass(resp) == RequestPass(resp, from_millis)

MakeRequestStep(c, iters, pass(_)) ==
    /\ fpc = "loop"
    /\ client = c
    /\ iter \in iters
    /\ script # <<>>
    /\ LET p == pass(Head(script))
       IN  /\ flog' = flog \o <<[ev |-> "send", ms |-> 0]>> \o p.log
           /\ IF p.ret = "continue"
              THEN /\ iter' = iter + 1
                   /\ UNCHANGED <<fpc, fresult>>
              ELSE /\ fresult' = p.ret
                   /\ fpc' = "done"
                   /\ UNCHANGED iter
    /\ script' = Tail(script)
    /\ UNCHANGED <<client, script0>>
    /\ UNCHANGED <<dvars, pvars, hvars, mvars, cvars, lvars, bvars>>

\* OxfordDictClient::make_request, one iteration of the loop
Oxford_make_request == MakeRequestStep("oxford", OxfordIters, Oxford_pass)

\* ReadwiseClient::make_request, one iteration of the loop
Readwise_make_request == MakeRequestStep("readwise", ReadwiseIters, Readwise_pass)

\* bail!("Failed to get response from Oxford dict in time")
Oxford_exhausted ==
    /\ fpc = "loop"
    /\ client = "oxford"
    /\ iter \notin OxfordIters
    /\ fresult' = "err_exhausted"
    /\ fpc' = "done"
    /\ UNCHANGED <<client, script, script0, iter, flog>>
    /\ UNCHANGED <<dvars, pvars, hvars, mvars, cvars, lvars, bvars>>

\* panic!("Failed to get response from readwise in time")
Readwise_exhausted ==
    /\ fpc = "loop"
    /\ client = "readwise"
    /\ iter \notin ReadwiseIters
    /\ fresult' = "panic"
    /\ fpc' = "done"
    /\ UNCHANGED <<client, script, script0, iter, flog>>
    /\ UNCHANGED <<dvars, pvars, hvars, mvars, cvars, lvars, bvars>>

(***************************************************************************)
(* The dictionary responses (EntriesResponse and its parts) and the pure   *)
(* mapping functions of OxfordDictClient.                                  *)
(***************************************************************************)
KnownCategories ==
    {"noun", "verb", "adjective", "adverb", "preposition", "interjection",
     "idiomatic", "pronoun"}

\* str::to_lowercase and str::trim on the strings the model uses
to_lowercase(s) ==
    CASE s = "Noun" -> "noun" [] s = "Verb" -> "verb" [] s = " Verb " -> " verb "
      [] s = "Foo" -> "foo" [] s = "Bar" -> "bar" [] s = "Particle" -> "particle"
      [] OTHER -> s
trim(s) ==
    CASE s = " Verb " -> "Verb" [] s = " verb " -> "verb" [] OTHER -> s

\* DefinitionCategory::from_str (strum, serialize_all = "snake_case")
DefinitionCategory_from_str(s) ==
    IF s \in KnownCategories THEN Ok(s) ELSE Err

\* CommonTextEntry
Text(s) == [text |-> s]
Texts(ss) == [i \in 1..Len(ss) |-> Text(ss[i])]

\* EntriesSense; an absent (None) list is the empty list: every use of these
\* fields goes through unwrap_or_default
EntriesSense(defs, shorts, examples, subsenses, xrefs) ==
    [definitions |-> defs, short_definitions |-> shorts,
     examples |-> Texts(examples), subsenses |-> subsenses,
     cross_references |-> Texts(xrefs)]

\* EntriesLexicalEntry
EntriesLexicalEntry(category, senses, derivs) ==
    [entries |-> <<[senses |-> senses]>>,
     lexical_category |-> Text(category),
     derivative_of |-> Texts(derivs)]

\* MappingResult
Result(r) == [kind |-> "Result", val |-> <<r>>]
OtherSources(os) == [kind |-> "OtherSources", val |-> os]
IsResult(m) == m.kind = "Result"
IsOtherSources(m) == m.kind = "OtherSources"

MapSeq(f(_), s) == [i \in 1..Len(s) |-> f(s[i])]
TextOf(cte) == cte.text
LowerTextOf(cte) == to_lowercase(cte.text)
ValOf(m) == m.val

\* OxfordDictClient::build_definition
build_definition(sense) ==
    LET definition ==
            IF sense.short_definitions # <<>> THEN Some(sense.short_definitions[1])
            ELSE IF sense.definitions # <<>> THEN Some(sense.definitions[1])
            ELSE None
        examples == MapSeq(TextOf, sense.examples)
    IN  IF definition = None /\ sense.cross_references # <<>>
        THEN OtherSources(MapSeq(LowerTextOf, sense.cross_references))
        ELSE Result([definition |-> definition, examples |-> examples])

\* OxfordDictClient::build_definitions
build_definitions(sense) ==
    <<build_definition(sense)>> \o MapSeq(build_definition, sense.subsenses)

SensesOf(entry) == entry.senses
HasText_always(def) == TRUE
HasText(def) == def.definition # None
IsOk(r) == r.ok
IsErr_never(r) == FALSE
IsErr(r) == ~r.ok

\* OxfordDictClient::map_lexical_entry
map_lexical_entry_derivatives_first(word_id, lexical_entry) ==
    LET lexical_category == to_lowercase(trim(lexical_entry.lexical_category.text))
        category == DefinitionCategory_from_str(lexical_category)
        mapped ==
            Flatten(MapSeq(build_definitions,
                           Flatten(MapSeq(SensesOf, lexical_entry.entries))))
        definitions ==
            SelectSeq(Flatten(MapSeq(ValOf, SelectSeq(mapped, IsResult))), HasText)
        other_sources == Flatten(MapSeq(ValOf, SelectSeq(mapped, IsOtherSources)))
        derivative_of == MapSeq(TextOf, lexical_entry.derivative_of)
    IN  IF ~category.ok
        THEN [ok |-> FALSE, err |-> "UnknownCategory", word |-> lexical_category]
        ELSE IF definitions # <<>>
        THEN Ok(Result([definitions |-> definitions, category |-> category.val]))
        ELSE IF other_sources # <<>> \/ derivative_of # <<>>
        THEN Ok(OtherSources(derivative_of \o other_sources))
        ELSE [ok |-> FALSE, err |-> "NoDefinitionsOrSources", word |-> word_id]
map_lexical_entry(word_id, lexical_entry) ==
    LET lexical_category == to_lowercase(trim(lexical_entry.lexical_category.text))
        category == DefinitionCategory_from_str(lexical_category)
        mapped ==
            Flatten(MapSeq(build_definitions,
                           Flatten(MapSeq(SensesOf, lexical_entry.entries))))
        definitions ==
            SelectSeq(Flatten(MapSeq(ValOf, SelectSeq(mapped, IsResult))), HasText)
        other_sources == Flatten(MapSeq(ValOf, SelectSeq(mapped, IsOtherSources)))
        derivative_of == MapSeq(TextOf, lexical_entry.derivative_of)
    IN  IF ~category.ok
        THEN [ok |-> FALSE, err |-> "UnknownCategory", word |-> lexical_category]
        ELSE IF definitions # <<>>
        THEN Ok(Result([definitions |-> definitions, category |-> category.val]))
        ELSE IF other_sources # <<>> \/ derivative_of # <<>>
        THEN Ok(OtherSources(other_sources \o derivative_of))
        ELSE [ok |-> FALSE, err |-> "NoDefinitionsOrSources", word |-> word_id]

LexicalEntriesOf(result) == result.lexical_entries
ErrOf(r) == [err |-> r.err, word |-> r.word]
\* A composite error that keeps the first failure only
CompositeError_first(errors) == [err |-> "CompositeError", errors |-> <<errors[1]>>]
CompositeError(errors) == [err |-> "CompositeError", errors |-> errors]

\* Ok((word_id.to_owned(), results))
entries_ok_original(word_id, results) ==
    [t |-> "ok", word |-> d_stem, entries |-> results]
entries_ok_first(word_id, results) ==
    [t |-> "ok", word |-> word_id, entries |-> <<results[1]>>]
entries_ok(word_id, results) ==
    [t |-> "ok", word |-> word_id, entries |-> results]

\* The first other source: other_sources.first().unwrap()
last_source(other_sources) == other_sources[Len(other_sources)]
first_source(other_sources) == other_sources[1]

\* The body of OxfordDictClient::entries for one response of make_request:
\* an error, the pair (word_id, results), or the word_id of the recursive call
entries_body(word_id, response) ==
    IF ~response.ok THEN [t |-> "err", e |-> [err |-> "Transport", word |-> word_id]]
    ELSE IF response.results = None
    THEN [t |-> "err", e |-> [err |-> "NoEntries", word |-> word_id]]
    ELSE
    LET lexical_entries == Flatten(MapSeq(LexicalEntriesOf, response.results[1]))
        mapped == [i \in 1..Len(lexical_entries) |->
                      map_lexical_entry(word_id, lexical_entries[i])]
        successes == MapSeq(ValOf, SelectSeq(mapped, IsOk))
        failures == MapSeq(ErrOf, SelectSeq(mapped, IsErr))
        results == Flatten(MapSeq(ValOf, SelectSeq(successes, IsResult)))
        other_sources == Flatten(MapSeq(ValOf, SelectSeq(successes, IsOtherSources)))
    IN  IF failures # <<>> THEN [t |-> "err", e |-> CompositeError(failures)]
        ELSE IF results # <<>> THEN entries_ok(word_id, results)
        ELSE IF other_sources # <<>>
        THEN [t |-> "recurse", source |-> first_source(other_sources)]
        ELSE [t |-> "err", e |-> [err |-> "NoLeads", word |-> word_id]]

\* The definitions of category c over the entries, appended in entry order
RECURSIVE AppendByCategory(_, _)
AppendByCategory(entries, c) ==
    IF entries = <<>> THEN <<>>
    ELSE (IF Head(entries).category = c THEN Head(entries).definitions ELSE <<>>)
         \o AppendByCategory(Tail(entries), c)

\* Replacing the list of the category instead of appending to it
process_entries_insert(word_id, def_entries) ==
    [text |-> word_id,
     original_text |-> word_id,
     translation |-> None,
     definitions |->
        Some([c \in {def_entries[i].category : i \in 1..Len(def_entries)} |->
                 LET latest == CHOOSE i \in 1..Len(def_entries) :
                                 /\ def_entries[i].category = c
                                 /\ \A j \in (i + 1)..Len(def_entries) : def_entries[j].category # c
                 IN  def_entries[latest].definitions])]

\* OxfordDictClient::process_entries
process_entries(word_id, entries) ==
    [text |-> word_id,
     original_text |-> word_id,
     translation |-> None,
     definitions |->
        Some([c \in {entries[i].category : i \in 1..Len(entries)} |->
                 AppendByCategory(entries, c)])]

(***************************************************************************)
(* The dictionary service: the responses it can give to an entries         *)
(* request. Cross-references lead to "foo" and "bar".                      *)
(***************************************************************************)
LexDef(category, d) ==
    EntriesLexicalEntry(category,
        <<EntriesSense(<<"long " \o d>>, <<d>>, <<"ex " \o d>>, <<>>, <<>>)>>, <<>>)
LexXref(x) ==
    EntriesLexicalEntry("noun", <<EntriesSense(<<>>, <<>>, <<>>, <<>>, <<x>>)>>, <<>>)
LexDeriv(x) == EntriesLexicalEntry("adjective", <<>>, <<x>>)
LexXrefDeriv(x, d) ==
    EntriesLexicalEntry("verb", <<EntriesSense(<<>>, <<>>, <<>>, <<>>, <<x>>)>>, <<d>>)
LexEmpty == EntriesLexicalEntry("noun", <<EntriesSense(<<>>, <<>>, <<>>, <<>>, <<>>)>>, <<>>)
LexUnknown == LexDef("Particle", "p")

TransportErr == [ok |-> FALSE]
NoResults == [ok |-> TRUE, results |-> None]
Results(les) == [ok |-> TRUE, results |-> Some(<<[lexical_entries |-> les]>>)]

DictResponses ==
    { TransportErr,
      NoResults,
      Results(<<>>),
      Results(<<LexDef("Noun", "a")>>),
      Results(<<LexDef("noun", "a"), LexDef(" Verb ", "b"), LexDef("Noun", "c")>>),
      Results(<<LexDef("verb", "a"), LexXref("Foo")>>),
      Results(<<LexXref("Foo")>>),
      Results(<<LexXref("Bar"), LexDeriv("foo")>>),
      Results(<<LexDeriv("bar"), LexXref("Foo")>>),
      Results(<<LexXrefDeriv("Foo", "bar")>>),
      Results(<<LexEmpty>>),
      Results(<<LexUnknown, LexDef("noun", "a")>>),
      Results(<<LexXref("Foo"), LexEmpty>>),
      Results(<<LexDef("noun", "a"), LexEmpty, LexXref("Foo"), LexUnknown>>) }

Langs == {"en-us", "en-gb"}
DictWords == {"w", "foo", "bar"}
Stems == {"w", "foo"}
Keys == Langs \X DictWords

(***************************************************************************)
(* Words, the cache file (db.rs) and the pure parts of the pipeline.       *)
(***************************************************************************)
\* Word::from_text
Word_from_text(text) ==
    [text |-> text, original_text |-> text, translation |-> None, definitions |-> None]

OriginalTexts(words) == {words[i].original_text : i \in 1..Len(words)}

\* serde_json values
JNull == [j |-> "null"]
JString(s) == [j |-> "string", s |-> s]
JArray(items) == [j |-> "array", items |-> items]
JObject(members) == [j |-> "object", members |-> members]
NotJson == [j |-> "invalid"]

\* serde_json::to_string(words), by #[derive(Serialize)] of Word, Definition,
\* Option<String> and Option<Definitions> (a map keyed by the snake_case name
\* of the category)
to_string_none_as_empty(words) ==
    LET option_string(o) == IF o = None THEN JString("") ELSE JString(o[1])
        definition(d) ==
            JObject([definition |-> option_string(d.definition),
                     examples |-> JArray([i \in 1..Len(d.examples) |->
                                             JString(d.examples[i])])])
        definitions(o) ==
            IF o = None THEN JNull
            ELSE JObject([c \in DOMAIN o[1] |-> JArray(MapSeq(definition, o[1][c]))])
        word(w) ==
            JObject([text |-> JString(w.text),
                     original_text |-> JString(w.original_text),
                     translation |-> option_string(w.translation),
                     definitions |-> definitions(w.definitions)])
    IN  JArray(MapSeq(word, words))
to_string(words) ==
    LET option_string(o) == IF o = None THEN JNull ELSE JString(o[1])
        definition(d) ==
            JObject([definition |-> option_string(d.definition),
                     examples |-> JArray([i \in 1..Len(d.examples) |->
                                             JString(d.examples[i])])])
        definitions(o) ==
            IF o = None THEN JNull
            ELSE JObject([c \in DOMAIN o[1] |-> JArray(MapSeq(definition, o[1][c]))])
        word(w) ==
            JObject([text |-> JString(w.text),
                     original_text |-> JString(w.original_text),
                     translation |-> option_string(w.translation),
                     definitions |-> definitions(w.definitions)])
    IN  JArray(MapSeq(word, words))

\* serde_json::from_str::<Vec<Word>>, by #[derive(Deserialize)] of the same
\* types: an error unless the text is a JSON array of Words whose definitions
\* are keyed by known categories
from_str(v) ==
    LET option_string(o) == IF o.j = "null" THEN None ELSE Some(o.s)
        definition(d) ==
            [definition |-> option_string(d.members.definition),
             examples |-> [i \in 1..Len(d.members.examples.items) |->
                              d.members.examples.items[i].s]]
        definitions(o) ==
            IF o.j = "null" THEN None
            ELSE Some([c \in DOMAIN o.members |-> MapSeq(definition, o.members[c].items)])
        word(w) ==
            [text |-> w.members.text.s,
             original_text |-> w.members.original_text.s,
             translation |-> option_string(w.members.translation),
             definitions |-> definitions(w.members.definitions)]
    IN  IF /\ v.j = "array"
           /\ \A i \in 1..Len(v.items) :
                 v.items[i].members.definitions.j = "object" =>
                     DOMAIN v.items[i].members.definitions.members \subseteq KnownCategories
        THEN Ok(MapSeq(word, v.items))
        ELSE Err

\* The cache file of the book: not there, there but unreadable (it cannot be
\* opened or read, or its text is no JSON), or holding the JSON text written
\* for a Word list
NoFile == [state |-> "missing", json |-> NotJson]
BadFile == [state |-> "unreadable", json |-> NotJson]
FileOf(words) == [state |-> "ok", json |-> to_string(words)]
\* A file that can be read and whose text does not deserialize
GarbledFile == [state |-> "ok", json |-> NotJson]

\* Taking a file that cannot be read for an empty cache
get_words_errors_as_empty(file) ==
    IF file.state = "ok" /\ from_str(file.json).ok THEN from_str(file.json) ELSE Ok(<<>>)

\* db::get_words
get_words(file) ==
    IF file.state = "missing" THEN Ok(<<>>)
    ELSE IF file.state = "unreadable" THEN Err
    ELSE from_str(file.json)

\* The Words a file holds (none when it is missing or unreadable)
WordsIn(file) == IF get_words(file).ok THEN get_words(file).val ELSE <<>>

\* db::save_words: the file afterwards; on an error the file is as it was
\* (create_dir or File::create failed) or created and not written
save_words_append(file, words, outcome) ==
    IF outcome = "ok" THEN FileOf(WordsIn(file) \o words)
    ELSE IF outcome = "not_created" THEN file
    ELSE BadFile
save_words(file, words, outcome) ==
    IF outcome = "ok" THEN FileOf(words)
    ELSE IF outcome = "not_created" THEN file
    ELSE BadFile

SaveOutcomes == {"ok", "not_created", "not_written"}

\* .map(|word| (word.original_text.clone(), word)).collect::<HashMap<_, _>>():
\* a later Word of the list replaces an earlier one with the same key
RECURSIVE collect_map(_)
collect_map(words) ==
    IF words = <<>> THEN <<>>
    ELSE LET rest == collect_map(SubSeq(words, 1, Len(words) - 1))
             last == words[Len(words)]
         IN  [k \in DOMAIN rest \cup {last.original_text} |->
                 IF k = last.original_text THEN last ELSE rest[k]]

\* The loop of partition_by_processed over the input words
RECURSIVE partition_loop(_, _, _, _)
partition_loop(words, cached_words, processed, unprocessed) ==
    IF words = <<>> THEN [unprocessed |-> unprocessed, processed |-> processed]
    ELSE LET word == Head(words)
         IN  IF word.original_text \in DOMAIN cached_words
             THEN partition_loop(Tail(words),
                      [k \in DOMAIN cached_words \ {word.original_text} |-> cached_words[k]],
                      Append(processed, cached_words[word.original_text]),
                      unprocessed)
             ELSE partition_loop(Tail(words), cached_words, processed,
                                 Append(unprocessed, word))

\* WordProcessor::partition_by_processed, given what db::get_words returned
partition_by_text(cached, words) ==
    LET texts == {cached[i].text : i \in 1..Len(cached)}
        hit(w) == w.original_text \in texts
        miss(w) == ~hit(w)
    IN  [unprocessed |-> SelectSeq(words, miss), processed |-> SelectSeq(cached, hit)]
partition_drops_hits(cached, words) ==
    [unprocessed |-> partition_loop(words, collect_map(cached), <<>>, <<>>).unprocessed,
     processed |-> <<>>]
partition_keeps_hits(cached, words) ==
    [unprocessed |-> words,
     processed |-> partition_loop(words, collect_map(cached), <<>>, <<>>).processed]
partition_by_processed(cached, words) ==
    partition_loop(words, collect_map(cached), <<>>, <<>>)

\* .unwrap_or(word.text.to_owned())
word_stem_of_original(word, stem) == IF stem.ok THEN stem.val ELSE word.original_text
word_stem_of(word, stem) == IF stem.ok THEN stem.val ELSE word.text

\* WordProcessor::process_word(&mut word), given what the three services
\* answered: whether it returned Ok(()), and the Word as the call left it
process_word_stem_first(word, stem, translation, defined_word) ==
    IF translation.ok /\ defined_word.ok
    THEN [ok |-> TRUE,
          word |-> [word EXCEPT !.text = defined_word.val.text,
                                !.translation = Some(translation.val),
                                !.definitions = defined_word.val.definitions]]
    ELSE [ok |-> FALSE, word |-> [word EXCEPT !.text = word_stem_of(word, stem)]]
process_word_keeps_text(word, stem, translation, defined_word) ==
    IF translation.ok /\ defined_word.ok
    THEN [ok |-> TRUE,
          word |-> [word EXCEPT !.translation = Some(translation.val),
                                !.definitions = defined_word.val.definitions]]
    ELSE [ok |-> FALSE, word |-> word]
process_word_replaces(word, stem, translation, defined_word) ==
    IF translation.ok /\ defined_word.ok
    THEN [ok |-> TRUE,
          word |-> [defined_word.val EXCEPT !.translation = Some(translation.val)]]
    ELSE [ok |-> FALSE, word |-> word]
process_word(word, stem, translation, defined_word) ==
    IF translation.ok /\ defined_word.ok
    THEN [ok |-> TRUE,
          word |-> [word EXCEPT !.text = defined_word.val.text,
                                !.translation = Some(translation.val),
                                !.definitions = defined_word.val.definitions]]
    ELSE [ok |-> FALSE, word |-> word]

\* What `for mut word in unprocessed_words` still has to take after a pass
for_rest_stops_at_failure(words, result) == IF result.ok THEN Tail(words) ELSE <<>>
for_rest(words, result) == Tail(words)

\* What the dictionary and the translator can answer for a word
StemAnswers == {Err, Ok("run")}
TranslateAnswers(word_stem) == {Err, Ok("tr " \o word_stem)}
\* (the DefinitionsEntry of one lexical entry: a sense with a short definition
\* and a subsense that has only an example)
SampleEntries(word_id) ==
    <<map_lexical_entry(word_id,
          EntriesLexicalEntry("Noun",
              <<EntriesSense(<<>>, <<"def " \o word_id>>, <<>>,
                             <<EntriesSense(<<>>, <<>>, <<"ex only">>, <<>>, <<>>)>>,
                             <<>>)>>,
              <<>>)).val.val[1]>>
DefinitionsAnswers(word_stem) ==
    {Err} \cup {Ok(process_entries(id, SampleEntries(id))) : id \in {word_stem, "foo"}}

\* WordProcessor::redact_words, given the operator's selection (indexes of
\* `words`) and the text typed for each selected Word
RECURSIVE redact_loop(_, _)
redact_loop(selected, redacted_text) ==
    IF selected = <<>> THEN <<>>
    ELSE <<[Head(selected) EXCEPT !.text = redacted_text[Head(selected).original_text],
                                  !.translation = None,
                                  !.definitions = None]>>
         \o redact_loop(Tail(selected), redacted_text)

redact_words_all(words, selection, redacted_text) ==
    redact_loop(words, redacted_text)
redact_words(words, selection, redacted_text) ==
    redact_loop(SelectIdx(words, selection, 1), redacted_text)

RedactTexts == {"fix"}

(***************************************************************************)
(* WordProcessor::process: one run of the pipeline, step by step.          *)
(***************************************************************************)
\* get_words: the marked highlights of the book, normalized and made unique
Highlights == <<"ran", "xyz">>
InputLists ==
    {[i \in 1..Len(ts) |-> Word_from_text(ts[i])] :
        ts \in {SelectIdx(Highlights, keep, 1) : keep \in SUBSET (1..Len(Highlights))}}

\* A Word as an earlier run left it in the cache
Enriched(original, text) ==
    [text |-> text, original_text |-> original,
     translation |-> Some("tr " \o text),
     definitions |-> process_entries(text, SampleEntries(text)).definitions]

InitialCaches ==
    {NoFile, BadFile, GarbledFile, FileOf(<<>>),
     FileOf(<<Enriched("ran", "run")>>),
     FileOf(<<Enriched("old", "old")>>),
     FileOf(<<Enriched("old", "old"), Enriched("ran", "run")>>)}

NoCalls == [stem |-> 0, definitions |-> 0, translate |-> 0]

PipeIdle ==
    /\ cache = NoFile
    /\ all_words = <<>>
    /\ force = FALSE
    /\ unprocessed_words = <<>>
    /\ processed_words = <<>>
    /\ failed_words = <<>>
    /\ count = 0
    /\ round = 0
    /\ ppc = "off"
    /\ calls = NoCalls
    /\ attempted = {}
    /\ reads = 0
    /\ writes = 0
    /\ cache0 = NoFile
    /\ prev_out = None
    /\ dropped = FALSE
    /\ exported = None
    /\ round_words = <<>>
    /\ tried = <<>>
    /\ last_call = None
    /\ redactions = <<>>

PipeInit ==
    /\ cache \in InitialCaches
    /\ all_words \in InputLists
    /\ force = FALSE
    /\ unprocessed_words = <<>>
    /\ processed_words = <<>>
    /\ failed_words = <<>>
    /\ count = 0
    /\ round = 0
    /\ ppc = "idle"
    /\ calls = NoCalls
    /\ attempted = {}
    /\ reads = 0
    /\ writes = 0
    /\ cache0 = cache
    /\ prev_out = None
    /\ dropped = FALSE
    /\ exported = None
    /\ round_words = <<>>
    /\ tried = <<>>
    /\ last_call = None
    /\ redactions = <<>>

RunOver == ppc \in {"done", "aborted"}

\* process(force) up to the call of process_words_v2: the book and its words
\* have been fetched
process(f) ==
    /\ ppc = "idle" \/ RunOver
    /\ force' = f
    /\ ppc' = "partition"
    /\ prev_out' = IF ppc = "done" /\ ~force
                   THEN Some([words |-> processed_words, dropped |-> dropped])
                   ELSE None
    /\ cache0' = cache
    /\ unprocessed_words' = <<>>
    /\ processed_words' = <<>>
    /\ failed_words' = <<>>
    /\ count' = 0
    /\ round' = 0
    /\ calls' = NoCalls
    /\ attempted' = {}
    /\ reads' = 0
    /\ writes' = 0
    /\ dropped' = FALSE
    /\ exported' = None
    /\ round_words' = <<>>
    /\ tried' = <<>>
    /\ last_call' = None
    /\ redactions' = <<>>
    /\ UNCHANGED <<cache, all_words>>
    /\ UNCHANGED <<fvars, dvars, mvars, cvars, lvars, bvars>>

\* process: get_books, select_book or get_words fails
process_fails ==
    /\ ppc = "partition"
    /\ ppc' = "aborted"
    /\ UNCHANGED <<cache, all_words, force, unprocessed_words, processed_words,
                   failed_words, count, round, calls, attempted, reads, writes,
                   cache0, prev_out, dropped, exported>>
    /\ UNCHANGED hvars
    /\ UNCHANGED <<fvars, dvars, mvars, cvars, lvars, bvars>>

\* process_words_v2, lines 115-119
process_words_v2_partition ==
    /\ ppc = "partition"
    /\ IF ~force
       THEN LET cached == get_words(cache)
            IN  /\ reads' = reads + 1
                /\ IF cached.ok
                   THEN LET p == partition_by_processed(cached.val, all_words)
                        IN  /\ unprocessed_words' = p.unprocessed
                            /\ processed_words' = p.processed
                            /\ ppc' = "while"
                   ELSE /\ ppc' = "aborted"
                        /\ UNCHANGED <<unprocessed_words, processed_words>>
       ELSE /\ unprocessed_words' = all_words
            /\ processed_words' = <<>>
            /\ ppc' = "while"
            /\ UNCHANGED reads
    /\ UNCHANGED <<cache, all_words, force, failed_words, count, round, calls,
                   attempted, writes, cache0, prev_out, dropped, exported>>
    /\ UNCHANGED hvars
    /\ UNCHANGED <<fvars, dvars, mvars, cvars, lvars, bvars>>

\* while !unprocessed_words.is_empty() { let mut failed_words = Vec::new(); ..
\* and, when the condition is false, Ok(processed_words)
process_words_v2_while ==
    /\ ppc = "while"
    /\ IF unprocessed_words # <<>>
       THEN /\ failed_words' = <<>>
            /\ round_words' = unprocessed_words
            /\ tried' = <<>>
            /\ ppc' = "for"
       ELSE /\ ppc' = "save"
            /\ UNCHANGED <<failed_words, round_words, tried>>
    /\ UNCHANGED <<last_call, redactions>>
    /\ UNCHANGED <<cache, all_words, force, unprocessed_words, processed_words,
                   count, round, calls, attempted, reads, writes, cache0, prev_out,
                   dropped, exported>>
    /\ UNCHANGED <<fvars, dvars, mvars, cvars, lvars, bvars>>

\* One pass through the body of `for mut word in unprocessed_words`
process_words_v2_for ==
    /\ ppc = "for"
    /\ unprocessed_words # <<>>
    /\ LET word == Head(unprocessed_words)
       IN  \E stem \in StemAnswers :
           LET word_stem == word_stem_of(word, stem)
           IN  \E translation \in TranslateAnswers(word_stem),
                  defined_word \in DefinitionsAnswers(word_stem) :
               LET result == process_word(word, stem, translation, defined_word)
               IN  /\ IF result.ok
                      THEN /\ processed_words' = Append(processed_words, result.word)
                           /\ UNCHANGED failed_words
                      ELSE /\ failed_words' = Append(failed_words, result.word)
                           /\ UNCHANGED processed_words
                   /\ unprocessed_words' = for_rest(unprocessed_words, result)
                   /\ last_call' = Some([word |-> word,
                                    lemmas |-> word.text,
                                    stem |-> stem,
                                    translate |-> word_stem,
                                    definitions |-> word_stem,
                                    translation |-> translation,
                                    defined_word |-> defined_word])
                   /\ tried' = Append(tried, word)
    /\ UNCHANGED <<round_words, redactions>>
    /\ count' = count + 1
    /\ calls' = [stem |-> calls.stem + 1, definitions |-> calls.definitions + 1,
                 translate |-> calls.translate + 1]
    /\ attempted' = attempted \cup {Head(unprocessed_words).original_text}
    /\ UNCHANGED <<cache, all_words, force, round, ppc, reads, writes, cache0,
                   prev_out, dropped, exported>>
    /\ UNCHANGED <<fvars, dvars, mvars, cvars, lvars, bvars>>

\* After the `for`: no Word failed, break, and Ok(processed_words)
process_words_v2_break ==
    /\ ppc = "for"
    /\ unprocessed_words = <<>>
    /\ failed_words = <<>>
    /\ ppc' = "save"
    /\ UNCHANGED <<cache, all_words, force, unprocessed_words, processed_words,
                   failed_words, count, round, calls, attempted, reads, writes,
                   cache0, prev_out, dropped, exported>>
    /\ last_call' = None
    /\ UNCHANGED <<round_words, tried, redactions>>
    /\ UNCHANGED <<fvars, dvars, mvars, cvars, lvars, bvars>>

\* After the `for`: unprocessed_words = Self::redact_words(failed_words)?
\* with the operator answering every prompt
process_words_v2_redact ==
    /\ ppc = "for"
    /\ unprocessed_words = <<>>
    /\ failed_words # <<>>
    /\ \E selection \in SUBSET (1..Len(failed_words)) :
       \E redacted_text \in
              [OriginalTexts(failed_words) -> RedactTexts \cup {"keep"}] :
          LET typed == [k \in DOMAIN redacted_text |->
                           IF redacted_text[k] = "keep"
                           THEN (CHOOSE w \in Range(failed_words) :
                                     w.original_text = k).text
                           ELSE redacted_text[k]]
          IN  /\ \A i \in 1..Len(failed_words) :
                    i \notin selection => redacted_text[failed_words[i].original_text] = "keep"
              /\ selection # {} => round < MaxRounds
              /\ unprocessed_words' = redact_words(failed_words, selection, typed)
              /\ dropped' = (dropped \/ selection # 1..Len(failed_words))
              /\ redactions' = Append(redactions,
                                      [words |-> failed_words,
                                       selection |-> selection,
                                       typed |-> typed])
    /\ last_call' = None
    /\ UNCHANGED <<round_words, tried>>
    /\ round' = round + 1
    /\ ppc' = "while"
    /\ UNCHANGED <<cache, all_words, force, processed_words, failed_words, count,
                   calls, attempted, reads, writes, cache0, prev_out, exported>>
    /\ UNCHANGED <<fvars, dvars, mvars, cvars, lvars, bvars>>

\* After the `for`: a prompt of redact_words returns an error and the run
\* goes on with what it has
process_words_v2_redact_error_ignored ==
    /\ ppc = "for"
    /\ unprocessed_words = <<>>
    /\ failed_words # <<>>
    /\ ppc' = "save"
    /\ UNCHANGED <<cache, all_words, force, unprocessed_words, processed_words,
                   failed_words, count, round, calls, attempted, reads, writes,
                   cache0, prev_out, dropped, exported>>
    /\ last_call' = None
    /\ UNCHANGED <<round_words, tried, redactions>>
    /\ UNCHANGED <<fvars, dvars, mvars, cvars, lvars, bvars>>

\* After the `for`: a prompt of redact_words returns an error (the operator
\* cancels it, or the terminal fails), and `?` returns it from the run
process_words_v2_redact_fails ==
    /\ ppc = "for"
    /\ unprocessed_words = <<>>
    /\ failed_words # <<>>
    /\ ppc' = "aborted"
    /\ UNCHANGED <<cache, all_words, force, unprocessed_words, processed_words,
                   failed_words, count, round, calls, attempted, reads, writes,
                   cache0, prev_out, dropped, exported>>
    /\ last_call' = None
    /\ UNCHANGED <<round_words, tried, redactions>>
    /\ UNCHANGED <<fvars, dvars, mvars, cvars, lvars, bvars>>

\* process: db::save_words(&book.title, &processed_words).await?
process_save_words ==
    /\ ppc = "save"
    /\ \E outcome \in SaveOutcomes :
        /\ cache' = save_words(cache, processed_words, outcome)
        /\ ppc' = IF outcome = "ok" THEN "export" ELSE "aborted"
    /\ writes' = writes + 1
    /\ UNCHANGED <<all_words, force, unprocessed_words, processed_words,
                   failed_words, count, round, calls, attempted, reads, cache0,
                   prev_out, dropped, exported>>
    /\ round_words' = <<>>
    /\ tried' = <<>>
    /\ last_call' = None
    /\ redactions' = <<>>
    /\ UNCHANGED <<fvars, dvars, mvars, cvars, lvars, bvars>>

\* process: self.anki.store_book(&book, &processed_words, force).await?
process_store_book ==
    /\ ppc = "export"
    /\ exported' = Some(processed_words)
    /\ \E ok \in BOOLEAN : ppc' = IF ok THEN "done" ELSE "aborted"
    /\ UNCHANGED <<cache, all_words, force, unprocessed_words, processed_words,
                   failed_words, count, round, calls, attempted, reads, writes,
                   cache0, prev_out, dropped>>
    /\ UNCHANGED hvars
    /\ UNCHANGED <<fvars, dvars, mvars, cvars, lvars, bvars>>

PipeNext ==
    \/ \E f \in BOOLEAN : process(f)
    \/ process_fails
    \/ process_words_v2_partition
    \/ process_words_v2_while
    \/ process_words_v2_for
    \/ process_words_v2_break
    \/ process_words_v2_redact
    \/ process_words_v2_redact_fails
    \/ process_save_words
    \/ process_store_book

(***************************************************************************)
(* OxfordDictClient::definitions and the recursion of entries.             *)
(***************************************************************************)
DictIdle ==
    /\ dict = [k \in Keys |-> None]
    /\ d_stem = "w"
    /\ d_lang = "en-us"
    /\ d_word = "w"
    /\ d_depth = 0
    /\ d_reqs = <<>>
    /\ d_ret = None
    /\ d_us = None
    /\ d_out = None
    /\ dpc = "idle"

\* definitions(word_stem) up to its first await: self.entries(word_stem, "en-us")
definitions_call(word_stem) ==
    /\ dpc = "idle"
    /\ d_stem' = word_stem
    /\ d_lang' = "en-us"
    /\ d_word' = word_stem
    /\ dpc' = "entries"
    /\ UNCHANGED <<dict, d_depth, d_reqs, d_ret, d_us, d_out>>
    /\ UNCHANGED <<fvars, pvars, hvars, mvars, cvars, lvars, bvars>>

\* One activation of entries(word_id, lang): the request, the mapping of the
\* response, and the return or the recursive call
entries ==
    /\ dpc = "entries"
    /\ d_depth <= MaxDepth
    /\ \E response \in DictResponses :
        LET key == <<d_lang, d_word>>
            out == entries_body(d_word, response)
        IN  /\ dict[key] \in {None, Some(response)}
            /\ dict' = [dict EXCEPT ![key] = Some(response)]
            /\ d_reqs' = Append(d_reqs, key)
            /\ IF out.t = "recurse"
               THEN /\ d_word' = out.source
                    /\ d_depth' = d_depth + 1
                    /\ UNCHANGED <<d_ret, dpc>>
               ELSE /\ d_ret' = Some(out)
                    /\ dpc' = "returned"
                    /\ UNCHANGED <<d_word, d_depth>>
    /\ UNCHANGED <<d_stem, d_lang, d_us, d_out>>
    /\ UNCHANGED <<fvars, pvars, hvars, mvars, cvars, lvars, bvars>>

\* definitions after en_us_entries is awaited
definitions_after_en_us ==
    /\ dpc = "returned"
    /\ d_lang = "en-us"
    /\ LET en_us_entries == d_ret[1]
       IN  IF en_us_entries.t = "ok"
           THEN /\ d_out' = Some(Ok(process_entries(en_us_entries.word,
                                                    en_us_entries.entries)))
                /\ dpc' = "done"
                /\ UNCHANGED <<d_lang, d_word, d_depth, d_us, d_ret>>
           ELSE /\ d_us' = Some(en_us_entries)
                /\ d_lang' = "en-gb"
                /\ d_word' = d_stem
                /\ d_depth' = 0
                /\ d_ret' = None
                /\ dpc' = "entries"
                /\ UNCHANGED d_out
    /\ UNCHANGED <<dict, d_stem, d_reqs>>
    /\ UNCHANGED <<fvars, pvars, hvars, mvars, cvars, lvars, bvars>>

\* vec![en_us_entries.err().unwrap(), en_gb_entries.err().unwrap()]
definitions_errors_gb_only(en_us_err, en_gb_err) == <<en_gb_err>>
definitions_errors(en_us_err, en_gb_err) == <<en_us_err, en_gb_err>>

\* definitions after en_gb_entries is awaited, returning the Word under the
\* word_stem it was asked for
definitions_after_en_gb_stem ==
    /\ dpc = "returned"
    /\ d_lang = "en-gb"
    /\ LET en_gb_entries == d_ret[1]
       IN  IF en_gb_entries.t = "ok"
           THEN d_out' = Some(Ok(process_entries(d_stem, en_gb_entries.entries)))
           ELSE d_out' = Some([ok |-> FALSE,
                               e |-> CompositeError(
                                        definitions_errors(d_us[1].e, en_gb_entries.e))])
    /\ dpc' = "done"
    /\ UNCHANGED <<dict, d_stem, d_lang, d_word, d_depth, d_reqs, d_ret, d_us>>
    /\ UNCHANGED <<fvars, pvars, hvars, mvars, cvars, lvars, bvars>>

\* definitions after en_gb_entries is awaited
definitions_after_en_gb ==
    /\ dpc = "returned"
    /\ d_lang = "en-gb"
    /\ LET en_gb_entries == d_ret[1]
       IN  IF en_gb_entries.t = "ok"
           THEN d_out' = Some(Ok(process_entries(en_gb_entries.word,
                                                 en_gb_entries.entries)))
           ELSE d_out' = Some([ok |-> FALSE,
                               e |-> CompositeError(
                                        definitions_errors(d_us[1].e, en_gb_entries.e))])
    /\ dpc' = "done"
    /\ UNCHANGED <<dict, d_stem, d_lang, d_word, d_depth, d_reqs, d_ret, d_us>>
    /\ UNCHANGED <<fvars, pvars, hvars, mvars, cvars, lvars, bvars>>

MapIdle ==
    /\ m_word = "w"
    /\ m_entry = None
    /\ m_out = None
    /\ mpc = "idle"

CallIdle ==
    /\ c_fn = "none"
    /\ c_arg = <<>>
    /\ c_ret = None

ListIdle ==
    /\ l_pages = <<>>
    /\ l_page = 1
    /\ l_results = <<>>
    /\ l_reqs = <<>>
    /\ l_ret = None
    /\ lpc = "idle"

DbIdle ==
    /\ files = <<>>
    /\ db_calls = <<>>

FetchIdle ==
    /\ client = "oxford"
    /\ script = <<>>
    /\ script0 = <<>>
    /\ iter = 1
    /\ flog = <<>>
    /\ fpc = "idle"
    /\ fresult = "pending"

DictInit == FetchIdle /\ DictIdle /\ PipeIdle /\ MapIdle /\ CallIdle /\ ListIdle /\ DbIdle

DictNext ==
    \/ \E word_stem \in Stems : definitions_call(word_stem)
    \/ entries
    \/ definitions_after_en_us
    \/ definitions_after_en_gb

SpecDict == DictInit /\ [][DictNext]_vars

PipelineInit == FetchIdle /\ DictIdle /\ PipeInit /\ MapIdle /\ CallIdle /\ ListIdle /\ DbIdle

SpecPipe == PipelineInit /\ [][PipeNext]_vars

FetchInit ==
    /\ client \in {"oxford", "readwise"}
    /\ script \in SeqOfLen(ServiceResponses, ScriptLen)
    /\ script0 = script
    /\ iter = 1
    /\ flog = <<>>
    /\ fpc = "loop"
    /\ fresult = "pending"
    /\ DictIdle
    /\ PipeIdle
    /\ MapIdle
    /\ CallIdle
    /\ ListIdle
    /\ DbIdle

FetchNext ==
    \/ Oxford_make_request
    \/ Readwise_make_request
    \/ Oxford_exhausted
    \/ Readwise_exhausted

SpecFetch == FetchInit /\ [][FetchNext]_vars

(***************************************************************************)
(* OxfordDictClient::map_lexical_entry called alone, on the lexical        *)
(* entries the dictionary may send.                                        *)
(***************************************************************************)
\* A sense with a short and a long definition and an example; with a long
\* definition and a cross-reference; with cross-references only; with an
\* example only; with nothing but a subsense that has a definition; with a
\* cross-reference and a subsense that has another
SampleSenses ==
    { EntriesSense(<<"long a">>, <<"a">>, <<"ex a">>, <<>>, <<>>),
      EntriesSense(<<"long b">>, <<>>, <<>>, <<>>, <<"Bar">>),
      EntriesSense(<<>>, <<>>, <<>>, <<>>, <<"Foo", "Bar">>),
      EntriesSense(<<>>, <<>>, <<"ex only">>, <<>>, <<>>),
      EntriesSense(<<>>, <<>>, <<>>,
                   <<EntriesSense(<<>>, <<"c">>, <<"ex c">>, <<>>, <<>>)>>, <<>>),
      EntriesSense(<<>>, <<>>, <<>>,
                   <<EntriesSense(<<>>, <<>>, <<>>, <<>>, <<"Bar">>)>>, <<"Foo">>) }

SampleCategories == {"noun", " Verb ", "Particle"}
SampleDerivatives == {<<>>, <<"Bar">>}

LexicalEntries ==
    {EntriesLexicalEntry(category, senses, derivs) :
        category \in SampleCategories,
        senses \in UNION {SeqOfLen(SampleSenses, n) : n \in 0..MaxSenses},
        derivs \in SampleDerivatives}

MapInit ==
    /\ FetchIdle
    /\ DictIdle
    /\ PipeIdle
    /\ CallIdle
    /\ ListIdle
    /\ DbIdle
    /\ m_word \in {"w"}
    /\ m_entry \in {Some(entry) : entry \in LexicalEntries}
    /\ m_out = None
    /\ mpc = "call"

\* OxfordDictClient::map_lexical_entry(word_id, lexical_entry)
map_lexical_entry_call ==
    /\ mpc = "call"
    /\ m_out' = Some(map_lexical_entry(m_word, m_entry[1]))
    /\ mpc' = "done"
    /\ UNCHANGED <<m_word, m_entry>>
    /\ UNCHANGED <<fvars, dvars, pvars, hvars, cvars, lvars, bvars>>

MapNext == map_lexical_entry_call

SpecMap == MapInit /\ [][MapNext]_vars

(***************************************************************************)
(* Properties of make_request (SpecFetch).                                 *)
(***************************************************************************)
RateLimited(r) == r.sent /\ r.status = TOO_MANY_REQUESTS /\ retry_after(r).ok
RateLimitedNoWait(r) == r.sent /\ r.status = TOO_MANY_REQUESTS /\ ~retry_after(r).ok
Success(r) == r.sent /\ r.status = STATUS_OK /\ r.body = "json"

\* C4: a rate-limited request is attempted at most 3 times in total; two
\* rate-limited answers and then a success give a successful result on the
\* third attempt, and three rate-limited answers make the call fail with the
\* rate-limit-exhausted error value, not a crash, in both clients.
C4_ThreeAttemptsThenExhausted ==
    fpc = "done" =>
        /\ Sent(flog) <= 3
        /\ (RateLimited(script0[1]) /\ RateLimited(script0[2]) /\ Success(script0[3]))
              => (fresult = "ok" /\ Sent(flog) = 3)
        /\ (RateLimited(script0[1]) /\ RateLimited(script0[2]) /\ RateLimited(script0[3]))
              => (fresult = "err_exhausted" /\ Sent(flog) = 3)

\* C5: a rate-limit response with Retry-After: n followed by a success gives
\* exactly one wait of n seconds, a second send of the request and a
\* successful result; a rate-limit response whose Retry-After is absent or
\* not a non-negative integer fails at once, with no wait and no further
\* request, in both clients.
C5_WaitRetryAfterSeconds ==
    fpc = "done" =>
        /\ (RateLimited(script0[1]) /\ Success(script0[2]))
              => /\ fresult = "ok"
                 /\ Sleeps(flog) = <<retry_after(script0[1]).val * MillisPerSec>>
                 /\ flog[Len(flog)].ev = "send"
                 /\ Sent(flog) = 2
        /\ RateLimitedNoWait(script0[1])
              => /\ fresult = "err_header"
                 /\ Sleeps(flog) = <<>>
                 /\ Sent(flog) = 1

(***************************************************************************)
(* Properties of definitions and entries (SpecDict).                       *)
(***************************************************************************)
\* What entries(word_id, lang) returns as a function of the dictionary's
\* answers, following each first lead at most `fuel` times
RECURSIVE direct_entries(_, _, _)
direct_entries(lang, word_id, fuel) ==
    IF dict[<<lang, word_id>>] = None THEN [t |-> "unasked"]
    ELSE LET out == entries_body(word_id, dict[<<lang, word_id>>][1])
         IN  IF out.t # "recurse" THEN out
             ELSE IF fuel = 0 THEN [t |-> "unfinished"]
             ELSE direct_entries(lang, out.source, fuel - 1)

\* The requests of d_reqs made in dialect lang
ReqsOf(lang) == SelectSeq(d_reqs, LAMBDA k : k[1] = lang)

EntriesResolvedByLead == dpc = "returned" /\ d_ret[1].t = "ok" /\ d_depth > 0

\* C1 as stated: when entries(w, lang) resolves through a chain of leads, the
\* result carries the original word id w.
C1_ResultCarriesOriginalWordId ==
    EntriesResolvedByLead => d_ret[1].word = d_stem

\* C1 as amended: when entries(w, lang) resolves through a chain of leads,
\* the result carries the word id of the last lead of the chain (the word
\* whose response held the definitions, never w) together with that word's
\* categorized definitions, for any chain length.
C1_ResultCarriesLastLeadWordId ==
    EntriesResolvedByLead =>
        LET chain == ReqsOf(d_lang)
            last == chain[Len(chain)]
        IN  /\ Len(chain) = d_depth + 1
            /\ chain[1] = <<d_lang, d_stem>>
            /\ d_ret[1].word = last[2]
            /\ d_ret[1].word # d_stem
            /\ d_ret[1] = entries_body(last[2], dict[last][1])

C1_Witness == EntriesResolvedByLead /\ d_depth = 2

DefinitionsDone == dpc = "done"
EnUsFailed == d_us # None

\* C2: definitions(stem) asks en-us first and en-gb only if en-us failed; no
\* en-gb request is issued when en-us succeeds; when en-us fails and en-gb
\* succeeds the returned Word is the one a direct en-gb lookup of the stem gives.
C2_FallbackEqualsDirectEnGb ==
    DefinitionsDone =>
        /\ d_reqs[1] = <<"en-us", d_stem>>
        /\ \A i, j \in 1..Len(d_reqs) :
              (d_reqs[i][1] = "en-us" /\ d_reqs[j][1] = "en-gb") => i < j
        /\ (ReqsOf("en-gb") # <<>>) <=> EnUsFailed
        /\ EnUsFailed => direct_entries("en-us", d_stem, MaxDepth).t = "err"
        /\ ~EnUsFailed =>
              LET us == direct_entries("en-us", d_stem, MaxDepth)
              IN  us.t = "ok" /\ d_out = Some(Ok(process_entries(us.word, us.entries)))
        /\ (EnUsFailed /\ d_out[1].ok) =>
              LET gb == direct_entries("en-gb", d_stem, MaxDepth)
              IN  gb.t = "ok" /\ d_out = Some(Ok(process_entries(gb.word, gb.entries)))

C2_Witness ==
    DefinitionsDone /\ EnUsFailed /\ d_out[1].ok /\ d_out[1].val.text # d_stem

\* C3: when both the en-us and the en-gb lookup fail, definitions fails with
\* a CompositeError holding exactly the two underlying errors, the en-us
\* error first and the en-gb error second.
C3_CompositeOfBothErrors ==
    (DefinitionsDone /\ ~d_out[1].ok) =>
        LET us == direct_entries("en-us", d_stem, MaxDepth)
            gb == direct_entries("en-gb", d_stem, MaxDepth)
        IN  /\ us.t = "err"
            /\ gb.t = "err"
            /\ d_out[1].e = [err |-> "CompositeError", errors |-> <<us.e, gb.e>>]

C3_Witness ==
    /\ DefinitionsDone
    /\ ~d_out[1].ok
    /\ d_out[1].e.errors[1].err = "NoEntries"
    /\ d_out[1].e.errors[2].err = "CompositeError"

(***************************************************************************)
(* Properties of the pipeline and the cache (SpecPipe).                    *)
(***************************************************************************)
InLoop(pc) == pc \in {"while", "for"}
Returned == ppc \in {"save", "export", "done"}
SecondRun == prev_out # None /\ ~force /\ ppc # "partition"

\* C6 as stated: in a second run with force=false on the same input words,
\* with the cache as the first run (force=false) wrote it, no stem,
\* definition or translation call is issued and the output set is identical
\* to the first run's.
C6_SecondRunIssuesNoCalls ==
    SecondRun =>
        /\ calls = NoCalls
        /\ Returned => Range(processed_words) = Range(prev_out[1].words)

\* C6 as amended: the second run issues no call for any Word of the first
\* run's output set; when the operator left out no failed Word in the first
\* run, the second run issues zero calls and its output set is identical to
\* the first run's.
C6_SecondRunSkipsFirstRunOutput ==
    SecondRun =>
        /\ attempted \cap OriginalTexts(prev_out[1].words) = {}
        /\ ~prev_out[1].dropped =>
              /\ calls = NoCalls
              /\ Returned => Range(processed_words) = Range(prev_out[1].words)

C6_Witness ==
    /\ SecondRun
    /\ ppc = "done"
    /\ ~prev_out[1].dropped
    /\ Len(prev_out[1].words) = 2
    /\ \E w \in Range(prev_out[1].words) : w.text = "fix"

CacheKeys(file) == OriginalTexts(WordsIn(file))
Persisted == ppc \in {"export", "done"}

\* C7 as stated: after any successful run every original_text key that was
\* in the cache before the run is still in the cache.
C7_CacheKeysNeverDeleted ==
    Persisted => CacheKeys(cache0) \subseteq CacheKeys(cache)

\* C7 as amended: after any successful run with force=false, every cached
\* Word whose original_text is that of an input Word is still in the cache,
\* unchanged; the run replaces the file by its output set, so other keys
\* are deleted.
C7_CachedInputWordsKept ==
    (Persisted /\ ~force) =>
        /\ \A w \in Range(WordsIn(cache0)) :
              w.original_text \in OriginalTexts(all_words) => w \in Range(WordsIn(cache))
        /\ CacheKeys(cache) \subseteq OriginalTexts(all_words)

C7_Witness ==
    /\ Persisted
    /\ ~force
    /\ CacheKeys(cache0) \cap OriginalTexts(all_words) # {}
    /\ CacheKeys(cache0) \ CacheKeys(cache) # {}
    /\ CacheKeys(cache) \ CacheKeys(cache0) # {}

\* The Word the cache holds for key k (the last one, should there be several)
CachedWord(file, k) ==
    LET words == WordsIn(file)
        i == CHOOSE i \in 1..Len(words) :
                 /\ words[i].original_text = k
                 /\ \A j \in (i + 1)..Len(words) : words[j].original_text # k
    IN  words[i]

JustPartitioned == ppc = "while" /\ round = 0

\* C8: partition splits the input by original_text: with force=false each
\* input Word whose original_text is in the cache goes to the output set as
\* the cached Word and is never passed to process_word, every other input
\* Word goes to the to-process set; with force=true every input Word goes to
\* the to-process set; no input Word is in both sets or in neither.
C8_PartitionIsSplitByOriginalText ==
    /\ (~force /\ ppc # "partition") =>
          attempted \cap CacheKeys(cache0) = {}
    /\ JustPartitioned =>
          LET keys == IF force THEN {} ELSE CacheKeys(cache0)
              hits == SelectSeq(all_words, LAMBDA w : w.original_text \in keys)
              misses == SelectSeq(all_words, LAMBDA w : w.original_text \notin keys)
          IN  /\ unprocessed_words = misses
              /\ processed_words =
                    [i \in 1..Len(hits) |-> CachedWord(cache0, hits[i].original_text)]
              /\ OriginalTexts(unprocessed_words) \cap OriginalTexts(processed_words) = {}
              /\ OriginalTexts(unprocessed_words) \cup OriginalTexts(processed_words)
                    = OriginalTexts(all_words)
              /\ Len(unprocessed_words) + Len(processed_words) = Len(all_words)

C8_Witness ==
    /\ JustPartitioned
    /\ ~force
    /\ processed_words # <<>>
    /\ unprocessed_words # <<>>
    /\ processed_words[1].text # processed_words[1].original_text

LoopExit == InLoop(ppc) /\ ~InLoop(ppc')
ReturnsOutput == ppc' = "save" /\ processed_words' = processed_words

\* C9 as stated: the resolve loop is left only by a round without a failed
\* Word or by an empty redaction result, and then the pipeline returns the
\* accumulated output set to be persisted; no outcome of the redaction step,
\* its failure included, ends the loop otherwise.
C9_LoopExitsOnlyWithOutput == [][LoopExit => ReturnsOutput]_vars

\* C9 as amended: the resolve loop is left in three ways: a round without a
\* failed Word, or an empty to-process set (the redaction step returned an
\* empty set, or nothing was to process), both returning the accumulated
\* output set to be persisted; or the redaction step failing, which aborts
\* the run with nothing persisted or exported.
C9_LoopExitsOrAborts ==
    [][LoopExit =>
          \/ /\ ppc = "for"
             /\ unprocessed_words = <<>> /\ failed_words = <<>>
             /\ ReturnsOutput
          \/ /\ ppc = "while"
             /\ unprocessed_words = <<>>
             /\ ReturnsOutput
          \/ /\ ppc = "for"
             /\ unprocessed_words = <<>> /\ failed_words # <<>>
             /\ ppc' = "aborted"
             /\ writes' = 0 /\ cache' = cache0 /\ exported' = None]_vars

C9_Witness ==
    /\ ppc = "aborted"
    /\ failed_words # <<>>
    /\ processed_words # <<>>
    /\ round = 1
    /\ writes = 0

\* C10: in one run the cache is read at most once, before any Word is
\* processed, and written at most once, exactly once in a run that reaches
\* the export, after the loop and before the export; the value written is
\* the full output set; no write happens while the loop runs, and a run that
\* aborts before the loop finishes leaves the cache as it was.
C10_CacheReadOnceWrittenOnce ==
    /\ reads <= 1
    /\ writes <= 1
    /\ reads = 1 => ~force
    /\ (ppc \in {"partition", "while", "for", "save"}) => (writes = 0 /\ cache = cache0)
    /\ (ppc \in {"partition"}) => (count = 0 /\ attempted = {})
    /\ (ppc \in {"while", "for", "save"} /\ ~force) => reads = 1
    /\ (ppc = "aborted" /\ writes = 0) => cache = cache0
    /\ Persisted => (writes = 1 /\ cache = FileOf(processed_words))
    /\ exported # None =>
          (writes = 1 /\ exported = Some(processed_words)
           /\ cache = FileOf(processed_words))

C10_Witness ==
    /\ ppc = "done"
    /\ reads = 1
    /\ writes = 1
    /\ count > 0
    /\ cache0.state = "ok"
    /\ cache # cache0
    /\ Len(processed_words) = 2
    /\ exported = Some(processed_words)

(***************************************************************************)
(* Properties of the rounds of the resolve loop (SpecPipe).                *)
(***************************************************************************)
InFor == ppc = "for"
Called == InFor /\ last_call # None
BothSucceeded(c) == c.translation.ok /\ c.defined_word.ok
JustRedacted == ppc = "while" /\ round > 0

\* C11: a per-Word failure never aborts the round: in every round each Word
\* of the to-process set is attempted exactly once, in order, whatever
\* happened to the Words before it, and the redaction step is not invoked
\* (nor the loop left) until every Word of the round has been attempted.
C11_EveryWordOfTheRoundAttempted ==
    /\ InFor => tried \o unprocessed_words = round_words
    /\ ~InFor => tried = round_words
    /\ Called => tried[Len(tried)] = last_call[1].word
    /\ \A k \in 1..Len(redactions) : redactions[k].words # <<>>
    /\ JustRedacted =>
          /\ Range(redactions[round].words) \subseteq Range(tried)
          /\ Len(tried) = Len(round_words)

C11_Witness ==
    /\ JustRedacted
    /\ Len(tried) = 2
    /\ redactions[1].words = <<tried[1]>>
    /\ processed_words # <<>>

\* C12: when process_word fails for a Word (its definitions or its
\* translation failed), the Word is left as it was before the attempt (text,
\* original_text, translation and definitions) and is put in the
\* failed-this-round set, not in the output set.
C12_FailedWordLeftUnchanged ==
    Called =>
        LET c == last_call[1]
        IN  ~BothSucceeded(c) =>
                /\ failed_words # <<>>
                /\ failed_words[Len(failed_words)] = c.word
                /\ c.word.original_text \notin OriginalTexts(processed_words)

C12_Witness ==
    /\ Called
    /\ last_call[1].stem.ok
    /\ last_call[1].defined_word.ok
    /\ ~last_call[1].translation.ok
    /\ last_call[1].stem.val # last_call[1].word.text

\* C13: a Word is moved to the output set in a round if and only if both its
\* definition resolution and its translation succeeded in that round; it
\* then has the text the dictionary resolver returned, the translation
\* result as translation and the resolved definitions as definitions.
C13_OutputIffBothSucceeded ==
    Called =>
        LET c == last_call[1]
            n == Len(processed_words)
            moved == n > 0 /\ processed_words[n].original_text = c.word.original_text
        IN  /\ BothSucceeded(c) <=> moved
            /\ BothSucceeded(c) <=> c.word.original_text \notin OriginalTexts(failed_words)
            /\ BothSucceeded(c) =>
                  processed_words[n] =
                      [text |-> c.defined_word.val.text,
                       original_text |-> c.word.original_text,
                       translation |-> Some(c.translation.val),
                       definitions |-> c.defined_word.val.definitions]

C13_Witness ==
    /\ Called
    /\ BothSucceeded(last_call[1])
    /\ last_call[1].defined_word.val.text \notin
          {last_call[1].word.text, last_call[1].definitions}

StemFailed == Called /\ ~last_call[1].stem.ok

\* C14 as stated: when the stem lookup of a Word fails, the Word does not
\* fail for it, and definitions and translation are requested for the
\* Word's original_text, in every round, rounds after a redaction included.
C14_StemFailureFallsBackToOriginalText ==
    StemFailed =>
        LET c == last_call[1]
        IN  /\ c.definitions = c.word.original_text
            /\ c.translate = c.word.original_text
            /\ BothSucceeded(c) => c.word.original_text \in OriginalTexts(processed_words)

\* C14 as amended: when the stem lookup of a Word fails, the Word does not
\* fail for it, and definitions and translation are requested for the
\* Word's current text: its original_text in the first round, and the text
\* the operator typed for it in a round after its redaction.
C14_StemFailureFallsBackToCurrentText ==
    StemFailed =>
        LET c == last_call[1]
        IN  /\ c.definitions = c.word.text
            /\ c.translate = c.word.text
            /\ c.lemmas = c.word.text
            /\ round = 0 => c.word.text = c.word.original_text
            /\ round > 0 => c.word.text = redactions[round].typed[c.word.original_text]
            /\ BothSucceeded(c) => c.word.original_text \in OriginalTexts(processed_words)

C14_Witness ==
    /\ StemFailed
    /\ round = 1
    /\ last_call[1].word.text # last_call[1].word.original_text
    /\ BothSucceeded(last_call[1])

\* What the redaction step returns for what the operator was shown, selected
\* and typed: the selected Words in the order shown, each with the typed
\* text and no translation and no definitions
RedactionReturn(r) ==
    LET selected == SelectIdx(r.words, r.selection, 1)
    IN  [i \in 1..Len(selected) |->
            [text |-> r.typed[selected[i].original_text],
             original_text |-> selected[i].original_text,
             translation |-> None,
             definitions |-> None]]

\* The original_text of the failed Words the operator did not return
LeftOut ==
    UNION {{r.words[i].original_text : i \in (1..Len(r.words)) \ r.selection} :
              r \in Range(redactions)}

\* C15: every Word the redaction step returns has no translation and no
\* definitions, and the next round's to-process set is exactly what the
\* redaction step returned; a failed Word the operator did not return is
\* not attempted again and never reaches the output set.
C15_RedactionReturnIsNextRound ==
    /\ JustRedacted =>
          /\ unprocessed_words = RedactionReturn(redactions[round])
          /\ \A i \in 1..Len(unprocessed_words) :
                /\ unprocessed_words[i].translation = None
                /\ unprocessed_words[i].definitions = None
    /\ (InFor /\ round > 0) => round_words = RedactionReturn(redactions[round])
    /\ LeftOut \cap OriginalTexts(unprocessed_words) = {}
    /\ LeftOut \cap OriginalTexts(processed_words) = {}
    /\ (InFor /\ round > 0) => LeftOut \cap OriginalTexts(tried) = {}
    /\ \A w \in {Enriched("ran", "run")} :
          redact_words(<<w>>, {1}, [k \in {"ran"} |-> "fix"])
              = <<[text |-> "fix", original_text |-> "ran",
                   translation |-> None, definitions |-> None]>>

C15_Witness ==
    /\ ppc = "save"
    /\ LeftOut # {}
    /\ Len(redactions[1].words) = 2
    /\ Cardinality(redactions[1].selection) = 1
    /\ \E w \in Range(processed_words) :
          /\ w.original_text \notin LeftOut
          /\ w.original_text \in OriginalTexts(redactions[1].words)

\* C16: original_text of a Word never changes after creation: through stem
\* substitution, successful or failed resolution and redaction, the Words
\* of the to-process, failed and output sets keep the original_text they
\* were created with, one Word per input Word, so that a Word is persisted
\* under the raw highlight text.
C16_OriginalTextNeverChanges ==
    /\ OriginalTexts(unprocessed_words) \subseteq OriginalTexts(all_words)
    /\ OriginalTexts(failed_words) \subseteq OriginalTexts(all_words)
    /\ OriginalTexts(processed_words) \subseteq OriginalTexts(all_words)
    /\ Cardinality(OriginalTexts(processed_words)) = Len(processed_words)
    /\ InFor =>
          /\ [i \in 1..Len(tried) |-> tried[i].original_text]
                = [i \in 1..Len(tried) |-> round_words[i].original_text]
          /\ OriginalTexts(tried) \subseteq
                OriginalTexts(failed_words) \cup OriginalTexts(processed_words)
          /\ OriginalTexts(failed_words) \cap OriginalTexts(processed_words) = {}
    /\ JustRedacted =>
          OriginalTexts(unprocessed_words) \subseteq OriginalTexts(redactions[round].words)
    /\ Persisted => CacheKeys(cache) \subseteq OriginalTexts(all_words)

C16_Witness ==
    /\ ppc = "done"
    /\ \E w \in Range(WordsIn(cache)) :
          /\ w.original_text = "xyz"
          /\ w.text = "foo"
          /\ w.translation = Some("tr fix")

(***************************************************************************)
(* Properties of one activation of entries (SpecDict). Activation i is the *)
(* one that issued request d_reqs[i].                                      *)
(***************************************************************************)
Activations == 1..Len(d_reqs)

\* The response to request i carries lexical entries
Answered(i) == dict[d_reqs[i]][1].ok /\ dict[d_reqs[i]][1].results # None

\* The outcome of map_lexical_entry for each lexical entry of response i, in
\* response order
MappedOf(i) ==
    LET lexical_entries ==
            Flatten(MapSeq(LexicalEntriesOf, dict[d_reqs[i]][1].results[1]))
    IN  [j \in 1..Len(lexical_entries) |->
            map_lexical_entry(d_reqs[i][2], lexical_entries[j])]

FailuresOf(i) == SelectSeq(MappedOf(i), LAMBDA m : ~m.ok)
ResolvedOf(i) ==
    LET rs == SelectSeq(MappedOf(i), LAMBDA m : m.ok /\ m.val.kind = "Result")
    IN  [j \in 1..Len(rs) |-> rs[j].val.val[1]]
\* The other-source candidates of response i in collection order
CandidatesOf(i) ==
    LET os == SelectSeq(MappedOf(i), LAMBDA m : m.ok /\ m.val.kind = "OtherSources")
    IN  Flatten([j \in 1..Len(os) |-> os[j].val.val])
UnknownCategoryIn(i) ==
    \E j \in 1..Len(MappedOf(i)) :
        ~MappedOf(i)[j].ok /\ MappedOf(i)[j].err = "UnknownCategory"

\* The recursive fetch of activation i: the request it issued, or is about
\* to issue, by calling entries again; None if it returned instead
RecursiveFetch(i) ==
    IF i < Len(d_reqs) /\ d_reqs[i + 1][1] = d_reqs[i][1] THEN Some(d_reqs[i + 1])
    ELSE IF i = Len(d_reqs) /\ dpc = "entries" /\ d_reqs[i][1] = d_lang
    THEN Some(<<d_lang, d_word>>)
    ELSE None

\* What activation i returned, for an activation that made no recursive fetch
ReturnOf(i) ==
    IF d_reqs[i][1] = "en-us" /\ d_lang = "en-gb" THEN d_us[1] ELSE d_ret[1]

\* Every request but the first of a dialect is the recursive fetch of the
\* activation before it
OnlyLeadsAreFetched ==
    \A i \in Activations :
        IF i > 1 /\ d_reqs[i - 1][1] = d_reqs[i][1]
        THEN /\ Answered(i - 1)
             /\ CandidatesOf(i - 1) # <<>>
             /\ d_reqs[i] = <<d_reqs[i][1], CandidatesOf(i - 1)[1]>>
        ELSE d_reqs[i][2] = d_stem

\* C17: if a lexical entry of a response has a category string that maps to
\* none of the eight categories, the entries call fails with a composite
\* error that holds that mapping failure (one member per failed entry), even
\* when other lexical entries of the response resolved to definitions; no
\* result is returned and no lead is followed past the unknown entry.
C17_UnknownCategoryFailsTheCall ==
    \A i \in Activations :
        (Answered(i) /\ UnknownCategoryIn(i)) =>
            /\ RecursiveFetch(i) = None
            /\ ReturnOf(i).t = "err"
            /\ ReturnOf(i).e.err = "CompositeError"
            /\ Len(ReturnOf(i).e.errors) = Len(FailuresOf(i))
            /\ \E j \in 1..Len(ReturnOf(i).e.errors) :
                  ReturnOf(i).e.errors[j].err = "UnknownCategory"

C17_Witness ==
    /\ dpc = "done"
    /\ \E i \in Activations :
          /\ i > 1
          /\ Answered(i)
          /\ UnknownCategoryIn(i)
          /\ ResolvedOf(i) # <<>>

\* C18 as stated: when no lexical entry of a response resolved and there is
\* at least one other-source candidate, entries makes exactly one recursive
\* fetch, for the first candidate in collection order and in the dialect of
\* the call; the other candidates are not fetched.
C18_FirstCandidateIsFetched ==
    /\ OnlyLeadsAreFetched
    /\ \A i \in Activations :
          (Answered(i) /\ ResolvedOf(i) = <<>> /\ CandidatesOf(i) # <<>>) =>
              RecursiveFetch(i) = Some(<<d_reqs[i][1], CandidatesOf(i)[1]>>)

\* C18 as amended: when no lexical entry of a response resolved, none failed
\* to map and there is at least one other-source candidate, entries makes
\* exactly one recursive fetch, for the first candidate in collection order
\* (entries in response order, within an entry cross-reference hints before
\* derivative-of targets) and in the dialect of the call; the other
\* candidates are not fetched. When an entry failed to map, the call fails
\* and no candidate is fetched.
C18_FirstCandidateIsFetchedUnlessAnEntryFailed ==
    /\ OnlyLeadsAreFetched
    /\ \A i \in Activations :
          Answered(i) =>
              /\ (FailuresOf(i) = <<>> /\ ResolvedOf(i) = <<>> /\ CandidatesOf(i) # <<>>)
                    => RecursiveFetch(i) = Some(<<d_reqs[i][1], CandidatesOf(i)[1]>>)
              /\ FailuresOf(i) # <<>>
                    => (RecursiveFetch(i) = None /\ ReturnOf(i).t = "err")

C18_Witness ==
    /\ dpc = "done"
    /\ \E i \in Activations :
          /\ Answered(i)
          /\ CandidatesOf(i) = <<"foo", "bar">>
          /\ Len(MappedOf(i)) = 1
          /\ d_reqs[i][1] = "en-gb"
          /\ RecursiveFetch(i) = Some(<<"en-gb", "foo">>)

\* C19 as stated: when at least one lexical entry of a response resolved to
\* definitions, entries succeeds and returns those definitions for word_id,
\* with no recursive fetch, even when other entries gave candidates.
C19_ResolvedEntriesAreReturned ==
    \A i \in Activations :
        (Answered(i) /\ ResolvedOf(i) # <<>>) =>
            /\ RecursiveFetch(i) = None
            /\ ReturnOf(i) = [t |-> "ok", word |-> d_reqs[i][2], entries |-> ResolvedOf(i)]

\* C19 as amended: when at least one lexical entry of a response resolved to
\* definitions and no entry failed to map, entries succeeds and returns the
\* resolved definitions of the response, in response order, for word_id,
\* with no recursive fetch, even when other entries gave candidates. When an
\* entry failed to map, the call fails although an entry resolved.
C19_ResolvedEntriesAreReturnedUnlessAnEntryFailed ==
    \A i \in Activations :
        (Answered(i) /\ ResolvedOf(i) # <<>>) =>
            /\ RecursiveFetch(i) = None
            /\ FailuresOf(i) = <<>> =>
                  ReturnOf(i) = [t |-> "ok", word |-> d_reqs[i][2],
                                 entries |-> ResolvedOf(i)]
            /\ FailuresOf(i) # <<>> => ReturnOf(i).t = "err"

C19_Witness ==
    /\ dpc = "done"
    /\ \E i \in Activations :
          /\ Answered(i)
          /\ Len(ResolvedOf(i)) = 1
          /\ CandidatesOf(i) # <<>>
          /\ i > 1
          /\ ReturnOf(i).t = "ok"

(***************************************************************************)
(* Properties of map_lexical_entry (SpecMap).                              *)
(***************************************************************************)
\* The senses of a lexical entry, each followed by its subsenses
SensesInOrder(lexical_entry) ==
    LET senses == Flatten([i \in 1..Len(lexical_entry.entries) |->
                              lexical_entry.entries[i].senses])
    IN  Flatten([i \in 1..Len(senses) |-> <<senses[i]>> \o senses[i].subsenses])

\* The text of a sense: the short definition, else the long one, else none
SenseText(sense) ==
    IF sense.short_definitions # <<>> THEN Some(sense.short_definitions[1])
    ELSE IF sense.definitions # <<>> THEN Some(sense.definitions[1])
    ELSE None

\* The Definitions of a lexical entry that have text
DefinitionsWithText(lexical_entry) ==
    LET ss == SelectSeq(SensesInOrder(lexical_entry), LAMBDA x : SenseText(x) # None)
    IN  [i \in 1..Len(ss) |->
            [definition |-> SenseText(ss[i]),
             examples |-> [j \in 1..Len(ss[i].examples) |-> ss[i].examples[j].text]]]

\* The cross-reference hints of the senses without text, lower-cased
Hints(lexical_entry) ==
    LET ss == SelectSeq(SensesInOrder(lexical_entry), LAMBDA x : SenseText(x) = None)
    IN  Flatten([i \in 1..Len(ss) |->
                    [j \in 1..Len(ss[i].cross_references) |->
                        to_lowercase(ss[i].cross_references[j].text)]])

DerivativeTargets(lexical_entry) ==
    [i \in 1..Len(lexical_entry.derivative_of) |-> lexical_entry.derivative_of[i].text]

CategoryOf(lexical_entry) == to_lowercase(trim(lexical_entry.lexical_category.text))

Mapped == mpc = "done" /\ CategoryOf(m_entry[1]) \in KnownCategories

\* C20: for a lexical entry with a known category map_lexical_entry gives
\* exactly one of three outcomes: Resolved with the entry's Definitions that
\* have text, the text-less ones discarded, when at least one has text;
\* otherwise OtherSources with the lower-cased cross-reference hints
\* followed by the derivative-of targets when either list is non-empty;
\* otherwise an error. Never Resolved and OtherSources for one entry.
C20_ResolvedOrOtherSourcesOrError ==
    Mapped =>
        LET le == m_entry[1]
            out == m_out[1]
        IN  /\ DefinitionsWithText(le) # <<>> =>
                  out = [ok |-> TRUE,
                         val |-> [kind |-> "Result",
                                  val |-> <<[definitions |-> DefinitionsWithText(le),
                                             category |-> CategoryOf(le)]>>]]
            /\ (DefinitionsWithText(le) = <<>>
                /\ (Hints(le) # <<>> \/ DerivativeTargets(le) # <<>>)) =>
                  out = [ok |-> TRUE,
                         val |-> [kind |-> "OtherSources",
                                  val |-> Hints(le) \o DerivativeTargets(le)]]
            /\ (DefinitionsWithText(le) = <<>>
                /\ Hints(le) = <<>> /\ DerivativeTargets(le) = <<>>) =>
                  (~out.ok /\ out.err = "NoDefinitionsOrSources")
            /\ out.ok => out.val.kind \in {"Result", "OtherSources"}

C20_Witness ==
    /\ Mapped
    /\ m_out[1].ok
    /\ m_out[1].val = [kind |-> "OtherSources", val |-> <<"foo", "bar", "foo", "bar", "Bar">>]

(***************************************************************************)
(* OxfordDictClient::build_definitions called alone, on senses whose       *)
(* subsenses are nested up to MaxNesting deep.                             *)
(***************************************************************************)
MaxNesting == 2

\* The fields of a sense other than its subsenses
SenseBodies ==
    { EntriesSense(<<"long a">>, <<"a", "a2">>, <<"ex 1", "ex 2">>, <<>>, <<>>),
      EntriesSense(<<"long b", "long b2">>, <<>>, <<>>, <<>>, <<"Bar">>),
      EntriesSense(<<>>, <<>>, <<>>, <<>>, <<"Foo", "Bar">>),
      EntriesSense(<<>>, <<>>, <<"ex only">>, <<>>, <<>>) }

\* EntriesSense is recursive: subsenses: Option<Vec<EntriesSense>>
RECURSIVE NestedSenses(_)
NestedSenses(depth) ==
    IF depth = 0 THEN SenseBodies
    ELSE LET below == NestedSenses(depth - 1)
         IN  {[body EXCEPT !.subsenses = subsenses] :
                 body \in SenseBodies,
                 subsenses \in {<<>>} \cup {<<s>> : s \in below}
                                   \cup {<<s, t>> : s \in below, t \in SenseBodies}}

SensesInit ==
    /\ FetchIdle
    /\ DictIdle
    /\ PipeIdle
    /\ MapIdle
    /\ ListIdle
    /\ DbIdle
    /\ c_fn = "build_definitions"
    /\ c_arg \in NestedSenses(MaxNesting)
    /\ c_ret = None

\* OxfordDictClient::build_definitions(sense)
build_definitions_call ==
    /\ c_fn = "build_definitions"
    /\ c_ret = None
    /\ c_ret' = Some(build_definitions(c_arg))
    /\ UNCHANGED <<c_fn, c_arg>>
    /\ UNCHANGED <<fvars, dvars, pvars, hvars, mvars, lvars, bvars>>

SensesNext == build_definitions_call

SpecSenses == SensesInit /\ [][SensesNext]_vars

(***************************************************************************)
(* C21                                                                     *)
(***************************************************************************)
\* A sense and the senses nested in it at any depth, each before its own
\* subsenses and otherwise in source order
RECURSIVE SensesDepthFirst(_)
SensesDepthFirst(sense) ==
    <<sense>> \o Flatten([i \in 1..Len(sense.subsenses) |->
                             SensesDepthFirst(sense.subsenses[i])])

FirstText(sense) ==
    IF sense.short_definitions # <<>> THEN Some(sense.short_definitions[1])
    ELSE IF sense.definitions # <<>> THEN Some(sense.definitions[1])
    ELSE None

ExampleTexts(sense) == [i \in 1..Len(sense.examples) |-> sense.examples[i].text]

BuiltDefinitions == c_fn = "build_definitions" /\ c_ret # None

\* C21: every sense of the argument, the subsenses nested at any depth
\* included, contributes one Definition or one other-source result, each
\* sense before its own subsenses and otherwise in source order; the text of
\* a Definition is the first short definition of its sense when there is one,
\* else its first long definition, and its examples are in source order.
C21_EverySenseAtAnyDepthContributes ==
    BuiltDefinitions =>
        LET senses == SensesDepthFirst(c_arg)
            out == c_ret[1]
        IN  /\ Len(out) = Len(senses)
            /\ \A i \in 1..Len(out) :
                  \/ IsOtherSources(out[i])
                  \/ /\ IsResult(out[i])
                     /\ out[i].val[1] = [definition |-> FirstText(senses[i]),
                                         examples |-> ExampleTexts(senses[i])]

\* The sense and its direct subsenses do contribute, in that order
C21_DirectSubsensesContribute ==
    BuiltDefinitions =>
        LET senses == <<c_arg>> \o c_arg.subsenses
            out == c_ret[1]
        IN  /\ Len(out) = Len(senses)
            /\ \A i \in 1..Len(out) :
                  \/ IsOtherSources(out[i]) /\ FirstText(senses[i]) = None
                  \/ /\ IsResult(out[i])
                     /\ out[i].val[1] = [definition |-> FirstText(senses[i]),
                                         examples |-> ExampleTexts(senses[i])]

\* A subsense of a subsense has a definition and build_definitions has returned
C21_NestedTwice ==
    /\ BuiltDefinitions
    /\ \E i \in 1..Len(c_arg.subsenses) :
          \E j \in 1..Len(c_arg.subsenses[i].subsenses) :
              FirstText(c_arg.subsenses[i].subsenses[j]) # None

(***************************************************************************)
(* OxfordDictClient::process_entries called alone, on the resolved         *)
(* entries that `entries` can hand it: up to MaxEntries of them, none      *)
(* without definitions.                                                    *)
(***************************************************************************)
MaxEntries == 3

\* Definition
DefinitionOf(text) == [definition |-> Some(text), examples |-> <<>>]

\* DefinitionsEntry
ResolvedEntries ==
    {[definitions |-> definitions, category |-> category] :
        definitions \in {<<DefinitionOf("a")>>, <<DefinitionOf("b")>>,
                         <<DefinitionOf("b"), DefinitionOf("a")>>},
        category \in {"noun", "verb"}}

MergeInit ==
    /\ FetchIdle
    /\ DictIdle
    /\ PipeIdle
    /\ MapIdle
    /\ ListIdle
    /\ DbIdle
    /\ c_fn = "process_entries"
    /\ c_arg \in {[word_id |-> "w", entries |-> def_entries] :
                     def_entries \in UNION {SeqOfLen(ResolvedEntries, n) : n \in 1..MaxEntries}}
    /\ c_ret = None

\* OxfordDictClient::process_entries(entries)
process_entries_call ==
    /\ c_fn = "process_entries"
    /\ c_ret = None
    /\ c_ret' = Some(process_entries(c_arg.word_id, c_arg.entries))
    /\ UNCHANGED <<c_fn, c_arg>>
    /\ UNCHANGED <<fvars, dvars, pvars, hvars, mvars, lvars, bvars>>

MergeNext == process_entries_call

SpecMerge == MergeInit /\ [][MergeNext]_vars

(***************************************************************************)
(* C22                                                                     *)
(***************************************************************************)
Merged == c_fn = "process_entries" /\ c_ret # None

RECURSIVE TotalLen(_)
TotalLen(lists) == IF lists = <<>> THEN 0 ELSE Len(Head(lists)) + TotalLen(Tail(lists))

RECURSIVE TotalOver(_, _)
TotalOver(map, keys) ==
    IF keys = {} THEN 0
    ELSE LET k == CHOOSE k \in keys : TRUE
         IN  Len(map[k]) + TotalOver(map, keys \ {k})

\* C22: the Word built from the resolved entries has one list per category
\* that occurs among them, which is the definitions of the entries of that
\* category one after the other in entry order, nothing removed; the lists
\* together hold as many definitions as the entries together.
C22_EntriesMergeByCategoryInOrder ==
    Merged =>
        LET def_entries == c_arg.entries
            definitions == c_ret[1].definitions[1]
            of(c) == SelectSeq(def_entries, LAMBDA e : e.category = c)
        IN  /\ DOMAIN definitions = {def_entries[i].category : i \in 1..Len(def_entries)}
            /\ \A c \in DOMAIN definitions :
                  definitions[c] = Flatten([i \in 1..Len(of(c)) |-> of(c)[i].definitions])
            /\ TotalOver(definitions, DOMAIN definitions)
                  = TotalLen([i \in 1..Len(def_entries) |-> def_entries[i].definitions])

\* noun -> [a], then verb -> [b], then noun -> [b, a] has given noun -> [a, b, a]
C22_Witness ==
    /\ Merged
    /\ c_arg.entries = <<[definitions |-> <<DefinitionOf("a")>>, category |-> "noun"],
                         [definitions |-> <<DefinitionOf("b")>>, category |-> "verb"],
                         [definitions |-> <<DefinitionOf("b"), DefinitionOf("a")>>,
                          category |-> "noun"]>>
    /\ c_ret[1].definitions[1]["noun"]
          = <<DefinitionOf("a"), DefinitionOf("b"), DefinitionOf("a")>>
    /\ c_ret[1].definitions[1]["verb"] = <<DefinitionOf("b")>>

(***************************************************************************)
(* OxfordDictClient::lemmas (word_stem) called alone, given the response   *)
(* of the lemmas request: up to MaxLemmas lexical entries.                 *)
(***************************************************************************)
MaxLemmas == 2

\* Itertools::unique: the first occurrence of each element, in order
RECURSIVE unique(_)
unique(s) ==
    IF s = <<>> THEN <<>>
    ELSE LET front == unique(SubSeq(s, 1, Len(s) - 1))
             x == s[Len(s)]
         IN  IF x \in Range(front) THEN front ELSE Append(front, x)

\* The inflection-of texts of the response, in source order
InflectionTexts(response) ==
    LET lexical_entries ==
            Flatten([i \in 1..Len(response.results[1]) |->
                        response.results[1][i].lexical_entries])
        inflection_of ==
            Flatten([i \in 1..Len(lexical_entries) |-> lexical_entries[i].inflection_of])
    IN  [i \in 1..Len(inflection_of) |-> inflection_of[i].text]

\* Taking the first inflection whatever the word is
lemmas_first(word, response) ==
    IF ~response.ok THEN Err
    ELSE IF response.results = None THEN Err
    ELSE LET inflections == unique(InflectionTexts(response))
         IN  IF inflections # <<>> THEN Ok(inflections[1]) ELSE Err

\* OxfordDictClient::lemmas, given the response make_request got
lemmas(word, response) ==
    IF ~response.ok THEN Err
    ELSE IF response.results = None THEN Err
    ELSE LET inflections == unique(InflectionTexts(response))
         IN  IF Len(inflections) > 1
             THEN IF \E i \in 1..Len(inflections) : inflections[i] = word
                  THEN Ok(word)
                  ELSE Ok(inflections[1])
             ELSE IF inflections # <<>> THEN Ok(inflections[1]) ELSE Err

\* LemmasLexicalEntry
LemmaEntries ==
    {[inflection_of |-> Texts(ts)] :
        ts \in UNION {SeqOfLen({"run", "ran", "Run"}, n) : n \in 0..2}}

\* What make_request can give lemmas: an error, or a LemmasResponse
LemmasResponses ==
    {TransportErr, NoResults, [ok |-> TRUE, results |-> Some(<<>>)]}
    \cup {Results(les) : les \in UNION {SeqOfLen(LemmaEntries, n) : n \in 0..MaxLemmas}}

LemmasInit ==
    /\ FetchIdle
    /\ DictIdle
    /\ PipeIdle
    /\ MapIdle
    /\ ListIdle
    /\ DbIdle
    /\ c_fn = "lemmas"
    /\ c_arg \in {[word |-> word, response |-> response] :
                     word \in {"run", "ran"}, response \in LemmasResponses}
    /\ c_ret = None

\* OxfordDictClient::word_stem(word), which is lemmas(word)
word_stem ==
    /\ c_fn = "lemmas"
    /\ c_ret = None
    /\ c_ret' = Some(lemmas(c_arg.word, c_arg.response))
    /\ UNCHANGED <<c_fn, c_arg>>
    /\ UNCHANGED <<fvars, dvars, pvars, hvars, mvars, lvars, bvars>>

SpecLemmas == LemmasInit /\ [][word_stem]_vars

(***************************************************************************)
(* C23                                                                     *)
(***************************************************************************)
Stemmed == c_fn = "lemmas" /\ c_ret # None /\ c_arg.response.ok

\* The inflection-of targets of the response, repetitions included
TargetsOf(response) ==
    IF response.results = None THEN <<>> ELSE InflectionTexts(response)

\* C23: given a response, word_stem returns the only inflection-of target
\* when all targets are the same text; when there are several different
\* targets, the one that is textually the word if there is one and else the
\* one that appears first; an error when there is no target, the response
\* without results included.
C23_StemSelection ==
    Stemmed =>
        LET targets == TargetsOf(c_arg.response)
            members == Range(targets)
            ret == c_ret[1]
        IN  /\ members = {} => ~ret.ok
            /\ Cardinality(members) = 1 => ret.ok /\ {ret.val} = members
            /\ Cardinality(members) > 1 /\ c_arg.word \in members =>
                  ret.ok /\ ret.val = c_arg.word
            /\ Cardinality(members) > 1 /\ c_arg.word \notin members =>
                  ret.ok /\ ret.val = targets[1]

\* "run" was asked with targets ran, ran, run, and "run" was returned
C23_Witness ==
    /\ Stemmed
    /\ c_arg.word = "run"
    /\ TargetsOf(c_arg.response) = <<"ran", "ran", "run">>
    /\ c_ret[1] = Ok("run")

\* "ran" was asked with targets Run, run, Run, and "Run" was returned
C23_WitnessFirstSeen ==
    /\ Stemmed
    /\ c_arg.word = "ran"
    /\ TargetsOf(c_arg.response) = <<"Run", "run", "Run">>
    /\ c_ret[1] = Ok("Run")

(***************************************************************************)
(* ReadwiseClient::get_list_data: the page loop, one pass per step. The    *)
(* service has up to MaxPages pages; make_request is taken by its          *)
(* outcomes: a response, an error, or its panic.                           *)
(***************************************************************************)
MaxPages == 3
PAGE_SIZE == "1000"

\* ListResponse: results, and next (the URL of the next page, or None)
ListResponse(items, next) == [kind |-> "ok", results |-> items, next |-> next]
PageItems == {<<>>, <<"h1">>, <<"h2", "h1">>}
PageAnswers ==
    {[kind |-> "err"], [kind |-> "panic"]}
    \cup {ListResponse(items, next) : items \in PageItems, next \in {None, Some("url")}}

\* The last page of the service has no next page
IsLastPage(answer) == answer.kind = "ok" => answer.next = None

\* One pass of the loop after make_request has returned `response`
get_list_data_pass_replaces(page, results, response) ==
    [page |-> page + 1,
     results |-> response.results,
     ret |-> IF response.next = None THEN Some(Ok(response.results)) ELSE None]
get_list_data_pass(page, results, response) ==
    [page |-> page + 1,
     results |-> results \o response.results,
     ret |-> IF response.next = None
             THEN Some(Ok(results \o response.results))
             ELSE None]

ListInit ==
    /\ FetchIdle
    /\ DictIdle
    /\ PipeIdle
    /\ MapIdle
    /\ CallIdle
    /\ DbIdle
    /\ l_pages \in {pages \in UNION {SeqOfLen(PageAnswers, n) : n \in 1..MaxPages} :
                       IsLastPage(pages[Len(pages)])}
    /\ l_page = 1
    /\ l_results = <<>>
    /\ l_reqs = <<>>
    /\ l_ret = None
    /\ lpc = "loop"

\* A pass of the loop in which make_request returns a response
get_list_data ==
    /\ lpc = "loop"
    /\ l_page <= Len(l_pages)
    /\ l_pages[l_page].kind = "ok"
    /\ LET pass == get_list_data_pass(l_page, l_results, l_pages[l_page])
       IN  /\ l_page' = pass.page
           /\ l_results' = pass.results
           /\ l_ret' = pass.ret
           /\ lpc' = IF pass.ret = None THEN "loop" ELSE "done"
    /\ l_reqs' = Append(l_reqs, <<l_page, PAGE_SIZE>>)
    /\ UNCHANGED l_pages
    /\ UNCHANGED <<fvars, dvars, pvars, hvars, mvars, cvars, bvars>>

\* A pass in which make_request returns an error: `?` returns it
get_list_data_fails ==
    /\ lpc = "loop"
    /\ l_page <= Len(l_pages)
    /\ l_pages[l_page].kind = "err"
    /\ l_ret' = Some(Err)
    /\ lpc' = "done"
    /\ l_reqs' = Append(l_reqs, <<l_page, PAGE_SIZE>>)
    /\ UNCHANGED <<l_pages, l_page, l_results>>
    /\ UNCHANGED <<fvars, dvars, pvars, hvars, mvars, cvars, bvars>>

\* A pass in which make_request panics: nothing is returned
get_list_data_panics ==
    /\ lpc = "loop"
    /\ l_page <= Len(l_pages)
    /\ l_pages[l_page].kind = "panic"
    /\ lpc' = "panicked"
    /\ l_reqs' = Append(l_reqs, <<l_page, PAGE_SIZE>>)
    /\ UNCHANGED <<l_pages, l_page, l_results, l_ret>>
    /\ UNCHANGED <<fvars, dvars, pvars, hvars, mvars, cvars, bvars>>

ListNext ==
    \/ get_list_data
    \/ get_list_data_fails
    \/ get_list_data_panics

SpecList == ListInit /\ [][ListNext]_vars

(***************************************************************************)
(* C24                                                                     *)
(***************************************************************************)
\* The items of the pages 1..n of the service, page after page
RECURSIVE ItemsUpTo(_)
ItemsUpTo(n) == IF n = 0 THEN <<>> ELSE ItemsUpTo(n - 1) \o l_pages[n].results

PageFailed(i) == l_pages[i].kind # "ok"
HasNext(i) == l_pages[i].kind = "ok" /\ l_pages[i].next # None

\* C24: the requests made so far are for the pages 1, 2, 3, ... in that
\* order, all with the same page size; a page is requested only when every
\* page before it came with a next page; a call that has returned a list made
\* its last request for a page without a next page and returned the items of
\* all the pages it requested, page after page; once a page request has
\* failed no list is returned, whatever the pages before held.
C24_PagesInOrderUntilNoNext ==
    /\ \A i \in 1..Len(l_reqs) : l_reqs[i] = <<i, PAGE_SIZE>>
    /\ \A i \in 1..(Len(l_reqs) - 1) : HasNext(i)
    /\ (l_ret # None /\ l_ret[1].ok) =>
          /\ lpc = "done"
          /\ l_reqs # <<>>
          /\ ~PageFailed(Len(l_reqs)) /\ ~HasNext(Len(l_reqs))
          /\ l_ret[1].val = ItemsUpTo(Len(l_reqs))
    /\ (\E i \in 1..Len(l_reqs) : PageFailed(i)) =>
          /\ lpc \in {"done", "panicked"}
          /\ l_ret \in {None, Some(Err)}
          /\ lpc = "done" => l_ret = Some(Err)
    /\ (lpc = "loop" /\ l_reqs # <<>>) => HasNext(Len(l_reqs))

\* Every step of the loop makes exactly the request of the next page
C24_OneRequestPerPass ==
    [][l_reqs' = Append(l_reqs, <<Len(l_reqs) + 1, PAGE_SIZE>>)]_vars

\* Three pages were fetched and their items returned in page order
C24_Witness ==
    /\ lpc = "done"
    /\ Len(l_reqs) = 3
    /\ l_ret = Some(Ok(<<"h1", "h2", "h1">>))
    /\ l_pages[1].results = <<"h1">>

\* The second page failed after the first had given items: an error, no list
C24_WitnessFailure ==
    /\ lpc = "done"
    /\ Len(l_reqs) = 2
    /\ l_results = <<"h2", "h1">>
    /\ l_ret = Some(Err)

(***************************************************************************)
(* Text character by character: a string is the sequence of its           *)
(* characters, a character outside ASCII is written by its code point.     *)
(***************************************************************************)
AsciiLower ==
    <<"a", "b", "c", "d", "e", "f", "g", "h", "i", "j", "k", "l", "m",
      "n", "o", "p", "q", "r", "s", "t", "u", "v", "w", "x", "y", "z">>
AsciiUpper ==
    <<"A", "B", "C", "D", "E", "F", "G", "H", "I", "J", "K", "L", "M",
      "N", "O", "P", "Q", "R", "S", "T", "U", "V", "W", "X", "Y", "Z">>

\* \s of the regex crate: the characters with the White_Space property
WhiteSpace == {" ", "\t", "U+00A0"}

\* char::to_lowercase: U+212A KELVIN SIGN gives k, U+0130 (capital I with dot
\* above) gives i followed by U+0307, U+00C9 (capital E acute) gives U+00E9
char_to_lowercase(c) ==
    IF \E i \in 1..26 : AsciiUpper[i] = c
    THEN <<AsciiLower[CHOOSE i \in 1..26 : AsciiUpper[i] = c]>>
    ELSE CASE c = "U+212A" -> <<"k">>
           [] c = "U+0130" -> <<"i", "U+0307">>
           [] c = "U+00C9" -> <<"U+00E9">>
           [] OTHER -> <<c>>

\* str::to_lowercase
chars_to_lowercase(s) == Flatten([i \in 1..Len(s) |-> char_to_lowercase(s[i])])

(***************************************************************************)
(* db::save_words and db::get_words called one after the other on the     *)
(* data directory, for books whose titles may give the same file name.     *)
(***************************************************************************)
MaxDbCalls == 3

\* db::get_filename
get_filename(book_name) ==
    LET kept == SelectSeq(chars_to_lowercase(book_name),
                          LAMBDA c : c \in Range(AsciiLower) \cup WhiteSpace)
    IN  <<"data/">> \o [i \in 1..Len(kept) |-> IF kept[i] = " " THEN "_" ELSE kept[i]]
                    \o <<".json">>

\* Book.title: "Dune", "dune!" and "Dune 2"
BookTitles ==
    {<<"D", "u", "n", "e">>, <<"d", "u", "n", "e", "!">>,
     <<"D", "u", "n", "e", " ", "2">>}

WordLists ==
    {<<>>,
     <<Enriched("ran", "run")>>,
     <<Enriched("old", "old"), Word_from_text("ran")>>}

DbInit ==
    /\ FetchIdle
    /\ DictIdle
    /\ PipeIdle
    /\ MapIdle
    /\ CallIdle
    /\ ListIdle
    /\ files = [f \in {get_filename(t) : t \in BookTitles} |-> NoFile]
    /\ db_calls = <<>>

\* db::save_words(book_name, words)
save_words_call(book_name, words, outcome) ==
    /\ Len(db_calls) < MaxDbCalls
    /\ files' = [files EXCEPT ![get_filename(book_name)] = save_words(@, words, outcome)]
    /\ db_calls' = Append(db_calls,
                          [op |-> "save_words", book_name |-> book_name, words |-> words,
                           ret |-> IF outcome = "ok" THEN Ok(<<>>) ELSE Err])
    /\ UNCHANGED <<fvars, dvars, pvars, hvars, mvars, cvars, lvars>>

\* db::get_words(book)
get_words_call(title) ==
    /\ Len(db_calls) < MaxDbCalls
    /\ db_calls' = Append(db_calls,
                          [op |-> "get_words", book_name |-> title, words |-> <<>>,
                           ret |-> get_words(files[get_filename(title)])])
    /\ UNCHANGED files
    /\ UNCHANGED <<fvars, dvars, pvars, hvars, mvars, cvars, lvars>>

DbNext ==
    \/ \E t \in BookTitles, words \in WordLists, outcome \in SaveOutcomes :
          save_words_call(t, words, outcome)
    \/ \E t \in BookTitles : get_words_call(t)

SpecDb == DbInit /\ [][DbNext]_vars

(***************************************************************************)
(* C25                                                                     *)
(***************************************************************************)
Saved(j) == db_calls[j].op = "save_words" /\ db_calls[j].ret.ok
Got(k) == db_calls[k].op = "get_words"

\* C25: a get_words for a title that follows a successful save_words for the
\* same title, with no other save in between, returns the Word list that was
\* saved, Word for Word; so after two saves for a title it is the list of
\* the later one that is returned.
C25_SaveThenGetReturnsTheSavedWords ==
    \A j \in 1..Len(db_calls) : \A k \in (j + 1)..Len(db_calls) :
        ( /\ Saved(j)
          /\ Got(k)
          /\ db_calls[k].book_name = db_calls[j].book_name
          /\ \A m \in (j + 1)..(k - 1) : Got(m) ) =>
            db_calls[k].ret = Ok(db_calls[j].words)

\* Two lists were saved for "Dune", one after the other, and the get_words
\* that followed returned the second, a Word without translation in it
C25_Witness ==
    /\ Len(db_calls) = 3
    /\ Saved(1) /\ Saved(2) /\ Got(3)
    /\ \A i \in 1..3 : db_calls[i].book_name = <<"D", "u", "n", "e">>
    /\ db_calls[1].words = <<Enriched("ran", "run")>>
    /\ db_calls[2].words = <<Enriched("old", "old"), Word_from_text("ran")>>
    /\ db_calls[3].ret = Ok(db_calls[2].words)

\* "Dune" and "dune!" are kept in one file: what was saved for one is what
\* get_words returns for the other
C25_TitlesShareAFile ==
    /\ Len(db_calls) = 2
    /\ Saved(1) /\ Got(2)
    /\ db_calls[1].book_name = <<"D", "u", "n", "e">>
    /\ db_calls[2].book_name = <<"d", "u", "n", "e", "!">>
    /\ db_calls[2].ret = Ok(<<Enriched("ran", "run")>>)

(***************************************************************************)
(* C26                                                                     *)
(***************************************************************************)
PastPartition == ppc \notin {"idle", "partition"}
NothingProcessed ==
    /\ attempted = {}
    /\ calls = NoCalls
    /\ count = 0
    /\ writes = 0
    /\ exported = None

C26_WitnessMissing ==
    /\ JustPartitioned
    /\ ~force
    /\ cache0 = NoFile
    /\ Len(unprocessed_words) = 2

\* The write failed after both Words had been enriched: no export
C26_WitnessWriteError ==
    /\ ppc = "aborted"
    /\ writes = 1
    /\ Len(processed_words) = 2
    /\ cache = BadFile
    /\ exported = None

(***************************************************************************)
(* C27                                                                     *)
(***************************************************************************)
\* C27: the dictionary answers a request for a word of a dialect always the
\* same, so a call of entries that ends after a number of requests bounded
\* by the dictionary asks for no word of a dialect twice: once a request is
\* repeated, the activation that made it is where an earlier one was, and
\* the chain of recursive calls goes round for ever.
C27_NoWordIsRequestedTwice ==
    \A i \in 1..Len(d_reqs) : \A j \in (i + 1)..Len(d_reqs) : d_reqs[i] # d_reqs[j]

\* "foo" leads to itself: the second request for it has been made, and the
\* call has not returned
C27_CycleFollowed ==
    /\ dpc = "entries"
    /\ Len(d_reqs) >= 2
    /\ d_reqs[1] = <<"en-us", "foo">>
    /\ d_reqs[2] = <<"en-us", "foo">>
    /\ d_word = "foo"

(***************************************************************************)
(* ReadwiseClient::transform_word called alone, on raw highlights of up to *)
(* MaxChars characters.                                                    *)
(***************************************************************************)
MaxChars == 3

\* The class [A-Za-z\s-] of the regex
InClass(c) == c \in Range(AsciiUpper) \cup Range(AsciiLower) \cup WhiteSpace \cup {"-"}

\* Removing the characters outside the class without lower-casing
transform_word_keeps_case(word) == SelectSeq(word, InClass)

\* ReadwiseClient::transform_word
transform_word(word) == SelectSeq(chars_to_lowercase(word), InClass)

\* Characters a highlight may hold
RawChars == {"R", "a", "-", " ", "1", "U+212A", "U+0130", "U+00C9"}

NormInit ==
    /\ FetchIdle
    /\ DictIdle
    /\ PipeIdle
    /\ MapIdle
    /\ ListIdle
    /\ DbIdle
    /\ c_fn = "transform_word"
    /\ c_arg \in UNION {SeqOfLen(RawChars, n) : n \in 0..MaxChars}
    /\ c_ret = None

\* .map(|word| ReadwiseClient::transform_word(&word)) of get_words
transform_word_call ==
    /\ c_fn = "transform_word"
    /\ c_ret = None
    /\ c_ret' = Some(transform_word(c_arg))
    /\ UNCHANGED <<c_fn, c_arg>>
    /\ UNCHANGED <<fvars, dvars, pvars, hvars, mvars, lvars, bvars>>

SpecNorm == NormInit /\ [][transform_word_call]_vars

(***************************************************************************)
(* C28                                                                     *)
(***************************************************************************)
Normalized == c_fn = "transform_word" /\ c_ret # None

IsAscii(c) == c \in Range(AsciiUpper) \cup Range(AsciiLower) \cup {"-", " ", "\t", "1", "!"}

\* C28, as stated: the token is the characters of the raw highlight that are
\* in [A-Za-z\s-], in order, lower-cased; and normalizing the token again
\* gives the token.
C28_KeepThenLowerCase ==
    Normalized =>
        /\ c_ret[1] = chars_to_lowercase(SelectSeq(c_arg, InClass))
        /\ transform_word(c_ret[1]) = c_ret[1]

\* C28, amended: the token is the characters of the lower-cased highlight
\* that are in [a-z\s-], in order, so every character of the token is in
\* that class; for a highlight of ASCII characters it is the characters of
\* the highlight in [A-Za-z\s-], lower-cased; and normalizing the token again
\* gives the token.
C28_LowerCaseThenKeep ==
    Normalized =>
        LET lower == chars_to_lowercase(c_arg)
            kept == {i \in 1..Len(lower) : lower[i] \in Range(AsciiLower) \cup WhiteSpace \cup {"-"}}
        IN  /\ c_ret[1] = SelectIdx(lower, kept, 1)
            /\ \A i \in 1..Len(c_ret[1]) :
                  c_ret[1][i] \in Range(AsciiLower) \cup WhiteSpace \cup {"-"}
            /\ (\A i \in 1..Len(c_arg) : IsAscii(c_arg[i])) =>
                  c_ret[1] = chars_to_lowercase(SelectSeq(c_arg, InClass))
            /\ transform_word(c_ret[1]) = c_ret[1]

\* "R1-" has given "r-"
C28_Witness ==
    /\ Normalized
    /\ c_arg = <<"R", "1", "-">>
    /\ c_ret[1] = <<"r", "-">>

\* U+0130 followed by "a" has given "ia": the capital I with dot above is not
\* in the class, its lower case begins with "i"
C28_WitnessOutsideAscii ==
    /\ Normalized
    /\ c_arg = <<"U+0130", "a">>
    /\ c_ret[1] = <<"i", "a">>

(***************************************************************************)
(* C29                                                                     *)
(***************************************************************************)
\* What the export reads with unwrap(): the translation, the definitions map
\* and the text of every Definition
Complete(w) ==
    /\ w.translation # None
    /\ w.definitions # None
    /\ \A c \in DOMAIN w.definitions[1] :
          \A i \in 1..Len(w.definitions[1][c]) :
              w.definitions[1][c][i].definition # None

AllComplete(words) == \A i \in 1..Len(words) : Complete(words[i])

\* C29: when every Word of the cache file the run started with is complete
\* (translation, definitions map, and the text of every Definition present),
\* so is, at every point of the run, every Word of the output set, and with
\* it every Word written to the cache and every Word handed to the export.
C29_OutputWordsAreComplete ==
    AllComplete(WordsIn(cache0)) =>
        /\ AllComplete(processed_words)
        /\ AllComplete(WordsIn(cache))
        /\ exported # None => AllComplete(exported[1])

\* A cached Word and a Word enriched in this run have been exported
C29_Witness ==
    /\ ppc = "done"
    /\ ~force
    /\ cache0 = FileOf(<<Enriched("ran", "run")>>)
    /\ exported # None
    /\ Len(exported[1]) = 2
    /\ exported[1][1] = Enriched("ran", "run")
    /\ exported[1][2].original_text = "xyz"
    /\ cache = FileOf(exported[1])

(***************************************************************************)
(* C30                                                                     *)
(***************************************************************************)
InResolveLoop == ppc \in {"while", "for"}

\* failed_words exists from the top of a round to the call of redact_words,
\* which consumes it
FailedThisRound == IF ppc = "for" THEN failed_words ELSE <<>>

\* The Words of the output, to-process and failed-this-round sets
InTheSets == processed_words \o unprocessed_words \o FailedThisRound

Distinct(words) == Cardinality(OriginalTexts(words)) = Len(words)

\* The Words the operator did not select in the redaction that has just returned
NotReturned ==
    LET r == redactions'[Len(redactions')]
    IN  {r.words[i].original_text : i \in (1..Len(r.words)) \ r.selection}

C30_AtMostOnce ==
    Distinct(all_words) =>
        /\ InResolveLoop => Distinct(InTheSets) /\ OriginalTexts(InTheSets) \subseteq OriginalTexts(all_words)
        /\ ppc \in {"save", "export", "done"} => Distinct(processed_words)

C30_LeavesOnlyByRedaction ==
    (InResolveLoop /\ ppc' \in {"while", "for", "save"}) =>
        /\ OriginalTexts(InTheSets') \subseteq OriginalTexts(InTheSets)
        /\ IF ppc = "for" /\ ppc' = "while"
           THEN OriginalTexts(InTheSets) \ OriginalTexts(InTheSets') = NotReturned
           ELSE OriginalTexts(InTheSets') = OriginalTexts(InTheSets)

\* C30: the input Words having pairwise distinct original_text, at every
\* point of the resolve loop no original_text occurs twice in the output, the
\* to-process and the failed-this-round sets taken together, and the output
\* set returned has no two Words with the same original_text; during the
\* loop an original_text leaves these sets only at a redaction, and then it
\* is that of a Word the operator did not return.
C30_EachWordInOneSetUntilLeftOut ==
    /\ []C30_AtMostOnce
    /\ [][C30_LeavesOnlyByRedaction]_vars

\* Of two input Words that failed, one was returned from the redaction and
\* then enriched, the other left out: the output set is that one Word
C30_Witness ==
    /\ ppc = "save"
    /\ Len(all_words) = 2
    /\ round = 1
    /\ dropped
    /\ Len(redactions) = 1
    /\ Len(redactions[1].words) = 2
    /\ Cardinality(redactions[1].selection) = 1
    /\ Len(processed_words) = 1

(***************************************************************************)
(* A lexical entry without definitions and without leads (SpecDict).       *)
(***************************************************************************)
\* The lexical entries of response i, in response order
LexicalEntriesIn(i) ==
    Flatten(MapSeq(LexicalEntriesOf, dict[d_reqs[i]][1].results[1]))

\* A lexical entry of a known category that has no definition with text, no
\* cross-reference hint and no derivative-of target
Barren(lexical_entry) ==
    /\ CategoryOf(lexical_entry) \in KnownCategories
    /\ DefinitionsWithText(lexical_entry) = <<>>
    /\ Hints(lexical_entry) = <<>>
    /\ DerivativeTargets(lexical_entry) = <<>>

BarrenIn(i) ==
    \E j \in 1..Len(LexicalEntriesIn(i)) : Barren(LexicalEntriesIn(i)[j])

\* A lexical entry that does not map: its category is unknown, or it is barren
FailsToMap(lexical_entry) ==
    CategoryOf(lexical_entry) \notin KnownCategories \/ Barren(lexical_entry)

\* The error of each lexical entry of response i that does not map, in
\* response order
ExpectedErrors(i) ==
    LET failed == SelectSeq(LexicalEntriesIn(i), FailsToMap)
    IN  [j \in 1..Len(failed) |->
            IF CategoryOf(failed[j]) \notin KnownCategories
            THEN [err |-> "UnknownCategory", word |-> CategoryOf(failed[j])]
            ELSE [err |-> "NoDefinitionsOrSources", word |-> d_reqs[i][2]]]

\* C31: if a lexical entry of a response has a known category but neither a
\* definition with text nor a lead (cross-reference or derivative-of), the
\* entries call fails with a composite error that lists every lexical entry
\* of the response that failed to map, one error each in response order,
\* even when other entries of the response resolved or offered leads; the
\* call returns no definitions and makes no recursive fetch.
C31_BarrenEntryFailsTheCall ==
    \A i \in Activations :
        (Answered(i) /\ BarrenIn(i)) =>
            /\ RecursiveFetch(i) = None
            /\ ReturnOf(i) = [t |-> "err",
                              e |-> [err |-> "CompositeError",
                                     errors |-> ExpectedErrors(i)]]

\* A finished call in which a response held a resolved entry, an entry with
\* a lead, a barren entry and a second failed entry
C31_Witness ==
    /\ dpc = "done"
    /\ \E i \in Activations :
          /\ Answered(i)
          /\ BarrenIn(i)
          /\ ResolvedOf(i) # <<>>
          /\ CandidatesOf(i) # <<>>
          /\ Len(ExpectedErrors(i)) = 2
          /\ ReturnOf(i).t = "err"

====
